---- MODULE Spec2Model ----
(***************************************************************************)
(* The Observation aggregate of pvCORE (base/observation.py) and the       *)
(* Frequencies collection (base/frequencies.py): the collections of        *)
(* sources, telescopes and frequencies, the scans that reference them by   *)
(* position, the reindexing walk, the activation sync, the store of        *)
(* calculated data, validation and serialization.                          *)
(*                                                                         *)
(* Positions are zero-based as in the Python code; a TLA+ sequence holds   *)
(* the entity of position i at i + 1.                                      *)
(***************************************************************************)
EXTENDS Integers, Sequences, FiniteSets, TLC

\* Bounds of the exploration.
MaxLen == 4
MaxSteps == 2

\* Optional[int]: None is the empty sequence and an integer i is <<i>>.
None == <<>>
Some(i) == <<i>>
Val(opt) == opt[1]

\* Integer positions handed to insert_*/remove_*/the activation sync:
\* a negative one, every position of a collection, and one past the end.
Positions == (0 - 1) .. MaxLen

\* The positions handed to the engine as a whole: below the collection,
\* inside it, and its last position.
EnginePositions == {0 - 1, 0, 1, MaxLen - 1}

\* Identity keys (source name, telescope code, IF frequency value).
InitLen == MaxLen - 1
NewIds == {1, MaxLen}

Keys == {"k1", "k2"}
KeyArguments == Keys \cup {""}
EntityTypes == {"sources", "telescopes", "frequencies"}

VARIABLES
    sources,          \* Observation._sources._data
    telescopes,       \* Observation._telescopes._data
    frequencies,      \* Observation._frequencies._data
    scans,            \* Observation._scans: the scans in order
    calculated_data,  \* Observation._calculated_data
    attrs,            \* Observation: code, type, isactive and _sefd
    catalogs,         \* CatalogManager: source_catalog, telescope_catalog
    manipulator,      \* DefaultManipulator: its project and collaborators
    ret,              \* history: what the last call returned
    last,             \* history: the last call and whether it raised
    pre,              \* history: the state before the last call
    pre2,             \* history: the state before the call before
    held,             \* history: positions each scan has ever referenced
    steps             \* history: the number of calls so far

vars == <<sources, telescopes, frequencies, scans, calculated_data, attrs,
          catalogs, manipulator, ret, last, pre, pre2, held, steps>>

----------------------------------------------------------------------------
\* Python built-ins on lists

Range(s) == {s[k] : k \in DOMAIN s}

\* list.insert(index, x): a negative index counts from the end, and the
\* position is clamped to [0, len].
ListInsertPos(s, index) ==
    IF index < 0
    THEN (IF index + Len(s) < 0 THEN 0 ELSE index + Len(s))
    ELSE (IF index > Len(s) THEN Len(s) ELSE index)

ListInsert(s, index, x) ==
    LET k == ListInsertPos(s, index)
    IN  SubSeq(s, 1, k) \o <<x>> \o SubSeq(s, k + 1, Len(s))

\* list.pop(index): accepts -len <= index < len, raises IndexError otherwise.
ListPopAccepts(s, index) == (0 - Len(s)) <= index /\ index < Len(s)

ListPop(s, index) ==
    LET k == IF index < 0 THEN index + Len(s) ELSE index
    IN  SubSeq(s, 1, k) \o SubSeq(s, k + 2, Len(s))

\* The collection's own removal as the specification gives it: IndexError
\* outside [0, len).
SpecRemoveAccepts(s, index) == 0 <= index /\ index < Len(s)

----------------------------------------------------------------------------
\* Entities and scans

\* A source or a telescope: its identity key, its active flag and what its
\* own validate() answers.
Entity(id, active) == [id |-> id, isactive |-> active, valid |-> TRUE]

\* check_non_negative(value, name) and check_positive(value, name) raise
\* for a value below zero, resp. not above zero.
check_non_negative(value) == value >= 0
check_positive(value) == value > 0

\* What a call that raised ValueError gives in the place of its result.
ValueError == [raised |-> "ValueError"]

\* IF.__init__: check_non_negative on the frequency and on the bandwidth,
\* then the attributes of an IF.
IF_(frequency, bandwidth, isactive) ==
    IF check_non_negative(frequency) /\ check_non_negative(bandwidth)
    THEN [_frequency |-> frequency, _bandwidth |-> bandwidth,
          isactive |-> isactive]
    ELSE ValueError

\* A scan: its interval, its references, its flags, and what its own
\* validate() and check_telescope_availability() answer.
Scan(start, duration, src, tels, freqs, off, active) ==
    [start |-> start, duration |-> duration,
     source_index |-> src, telescope_indices |-> tels,
     frequency_indices |-> freqs, is_off_source |-> off, isactive |-> active,
     valid |-> TRUE, available |-> TRUE]

\* Scan.set_source_index / set_telescope_indices / set_frequency_indices
set_source_index(scan, idx) == [scan EXCEPT !.source_index = idx]
set_telescope_indices(scan, idxs) == [scan EXCEPT !.telescope_indices = idxs]
set_frequency_indices(scan, idxs) == [scan EXCEPT !.frequency_indices = idxs]

\* Mutant: the removed index is shifted like the others instead of dropped.
ShiftRemovedNoDrop(idxs, removed_index) ==
    [k \in DOMAIN idxs |->
        IF idxs[k] > removed_index THEN idxs[k] - 1 ELSE idxs[k]]

\* Lines 168-176: the removal branch of the loop over current_indices.
RECURSIVE ShiftRemoved(_, _)
ShiftRemoved(idxs, removed_index) ==
    IF idxs = <<>> THEN <<>>
    ELSE LET idx == Head(idxs)
             rest == ShiftRemoved(Tail(idxs), removed_index)
         IN  IF idx = removed_index THEN rest
             ELSE IF idx > removed_index THEN <<idx - 1>> \o rest
             ELSE <<idx>> \o rest

\* Mutant: the index at the insertion point itself is not shifted.
ShiftInsertedStrict(idxs, inserted_index) ==
    [k \in DOMAIN idxs |->
        IF idxs[k] > inserted_index THEN idxs[k] + 1 ELSE idxs[k]]

\* Lines 177-181: the insertion branch of the loop over current_indices.
ShiftInserted(idxs, inserted_index) ==
    [k \in DOMAIN idxs |->
        IF idxs[k] >= inserted_index THEN idxs[k] + 1 ELSE idxs[k]]

\* Mutant: a removed source clears the index and leaves is_off_source.
UpdateSourceIndexNoFlag(scan, removed_index, inserted_index) ==
    LET current_idx == scan.source_index
    IN  IF removed_index # None /\ current_idx # None
        THEN IF current_idx = removed_index
             THEN set_source_index(scan, None)
             ELSE IF Val(current_idx) > Val(removed_index)
             THEN set_source_index(scan, Some(Val(current_idx) - 1))
             ELSE scan
        ELSE IF inserted_index # None /\ current_idx # None
                /\ Val(current_idx) >= Val(inserted_index)
        THEN set_source_index(scan, Some(Val(current_idx) + 1))
        ELSE scan

\* Lines 156-165: the sources branch of the loop of _update_scan_indices.
UpdateSourceIndex(scan, removed_index, inserted_index) ==
    LET current_idx == scan.source_index
    IN  IF removed_index # None /\ current_idx # None
        THEN IF current_idx = removed_index
             THEN [set_source_index(scan, None) EXCEPT !.is_off_source = TRUE]
             ELSE IF Val(current_idx) > Val(removed_index)
             THEN set_source_index(scan, Some(Val(current_idx) - 1))
             ELSE scan
        ELSE IF inserted_index # None /\ current_idx # None
                /\ Val(current_idx) >= Val(inserted_index)
        THEN set_source_index(scan, Some(Val(current_idx) + 1))
        ELSE scan

UpdateIndexList(idxs, removed_index, inserted_index) ==
    IF removed_index # None THEN ShiftRemoved(idxs, Val(removed_index))
    ELSE IF inserted_index # None THEN ShiftInserted(idxs, Val(inserted_index))
    ELSE idxs

\* Mutant: a change of the telescopes rewrites the frequency indices too.
UpdateOneScanBothLists(scan, entity_type, removed_index, inserted_index) ==
    IF entity_type = "sources"
    THEN UpdateSourceIndex(scan, removed_index, inserted_index)
    ELSE IF entity_type = "telescopes"
    THEN set_frequency_indices(
            set_telescope_indices(scan,
                UpdateIndexList(scan.telescope_indices, removed_index, inserted_index)),
            UpdateIndexList(scan.frequency_indices, removed_index, inserted_index))
    ELSE set_frequency_indices(scan,
            UpdateIndexList(scan.frequency_indices, removed_index, inserted_index))

UpdateOneScan(scan, entity_type, removed_index, inserted_index) ==
    IF entity_type = "sources"
    THEN UpdateSourceIndex(scan, removed_index, inserted_index)
    ELSE IF entity_type = "telescopes"
    THEN set_telescope_indices(scan,
            UpdateIndexList(scan.telescope_indices, removed_index, inserted_index))
    ELSE set_frequency_indices(scan,
            UpdateIndexList(scan.frequency_indices, removed_index, inserted_index))

\* Mutant: the walk is over the active scans only.
update_scan_indices_active_only(scs, entity_type, removed_index, inserted_index) ==
    [k \in DOMAIN scs |->
        IF scs[k].isactive
        THEN UpdateOneScan(scs[k], entity_type, removed_index, inserted_index)
        ELSE scs[k]]

\* Observation._update_scan_indices: the walk over every scan.
update_scan_indices(scs, entity_type, removed_index, inserted_index) ==
    [k \in DOMAIN scs |->
        UpdateOneScan(scs[k], entity_type, removed_index, inserted_index)]

----------------------------------------------------------------------------
\* Activation sync

\* Python's s[index] for -len <= index < len
PyItem(s, index) == s[(IF index < 0 THEN index + Len(s) ELSE index) + 1]

AllEntities(entity_type) ==
    IF entity_type = "sources" THEN sources
    ELSE IF entity_type = "telescopes" THEN telescopes
    ELSE frequencies

IndexList(scan, entity_type) ==
    IF entity_type = "telescopes" THEN scan.telescope_indices
    ELSE scan.frequency_indices

SetIndexList(scan, entity_type, idxs) ==
    IF entity_type = "telescopes" THEN set_telescope_indices(scan, idxs)
    ELSE set_frequency_indices(scan, idxs)

\* Mutant: the deactivated index is dropped and the later ones renumbered.
WithoutRenumbering(idxs, index) ==
    LET kept == SelectSeq(idxs, LAMBDA x : x # index)
    IN  [k \in DOMAIN kept |-> IF kept[k] > index THEN kept[k] - 1 ELSE kept[k]]

\* [i for i in current_indices if i != index]
RECURSIVE Without(_, _)
Without(idxs, index) ==
    IF idxs = <<>> THEN <<>>
    ELSE IF Head(idxs) = index THEN Without(Tail(idxs), index)
    ELSE <<Head(idxs)>> \o Without(Tail(idxs), index)

\* Mutant: an activation also binds the source to every off-source scan
\* that has no source.
SyncSourceIndexAnyOffSource(scan, index, is_active) ==
    LET current_idx == scan.source_index
    IN  IF current_idx = Some(index)
        THEN IF ~is_active
             THEN [set_source_index(scan, None) EXCEPT !.is_off_source = TRUE]
             ELSE [set_source_index(scan, Some(index)) EXCEPT !.is_off_source = FALSE]
        ELSE IF is_active /\ current_idx = None /\ scan.is_off_source
        THEN [set_source_index(scan, Some(index)) EXCEPT !.is_off_source = FALSE]
        ELSE scan

\* Mutant: a deactivation clears the index and leaves is_off_source.
SyncSourceIndexNoFlag(scan, index, is_active) ==
    LET current_idx == scan.source_index
    IN  IF current_idx = Some(index)
        THEN IF ~is_active
             THEN set_source_index(scan, None)
             ELSE IF is_active /\ scan.is_off_source /\ current_idx # None
             THEN [set_source_index(scan, Some(index)) EXCEPT !.is_off_source = FALSE]
             ELSE scan
        ELSE scan

\* The sources branch of the loop of _sync_scans_with_activation.
SyncSourceIndex(scan, index, is_active) ==
    LET current_idx == scan.source_index
    IN  IF current_idx = Some(index)
        THEN IF ~is_active
             THEN [set_source_index(scan, None) EXCEPT !.is_off_source = TRUE]
             ELSE IF is_active /\ scan.is_off_source /\ current_idx # None
             THEN [set_source_index(scan, Some(index)) EXCEPT !.is_off_source = FALSE]
             ELSE scan
        ELSE scan

\* The test of line 357, reached for telescopes only: the entity at the
\* position exists and is active.
ActivationAdds(all_entities, index) ==
    index < Len(all_entities) /\ PyItem(all_entities, index).isactive

\* Mutant: an activation appends the index without the test that the list
\* does not hold it.
SyncIndexListAppendsAgain(scan, entity_type, index, is_active, all_entities) ==
    LET current_indices == IndexList(scan, entity_type)
    IN  IF index \in Range(current_indices) /\ ~is_active
        THEN SetIndexList(scan, entity_type, Without(current_indices, index))
        ELSE IF is_active
        THEN IF ActivationAdds(all_entities, index)
             THEN SetIndexList(scan, entity_type, current_indices \o <<index>>)
             ELSE scan
        ELSE scan

\* The telescopes/frequencies branch of the loop.
SyncIndexList(scan, entity_type, index, is_active, all_entities) ==
    LET current_indices == IndexList(scan, entity_type)
    IN  IF index \in Range(current_indices) /\ ~is_active
        THEN SetIndexList(scan, entity_type, Without(current_indices, index))
        ELSE IF index \notin Range(current_indices) /\ is_active
        THEN IF ActivationAdds(all_entities, index)
             THEN SetIndexList(scan, entity_type, current_indices \o <<index>>)
             ELSE scan
        ELSE scan

\* The walk raises when it reaches lines 355-357 on a scan and either the
\* collection is Frequencies, which has no get_all_frequencies
\* (AttributeError), or the index is below -len (IndexError).  Every scan
\* walked before that one already holds the index and is left as it was.
SyncRaises(scs, entity_type, index, is_active, all_entities) ==
    /\ entity_type # "sources"
    /\ is_active
    /\ \E k \in DOMAIN scs : index \notin Range(IndexList(scs[k], entity_type))
    /\ \/ entity_type = "frequencies"
       \/ index < 0 - Len(all_entities)

\* Observation._sync_scans_with_activation: the walk over every scan.
sync_scans_with_activation(scs, entity_type, index, is_active, all_entities) ==
    [k \in DOMAIN scs |->
        IF entity_type = "sources"
        THEN SyncSourceIndex(scs[k], index, is_active)
        ELSE SyncIndexList(scs[k], entity_type, index, is_active, all_entities)]

----------------------------------------------------------------------------
\* History

Snapshot ==
    [sources |-> sources, telescopes |-> telescopes,
     frequencies |-> frequencies, scans |-> scans,
     calculated_data |-> calculated_data, attrs |-> attrs,
     catalogs |-> catalogs, manipulator |-> manipulator, held |-> held,
     last |-> last]

\* A call: its name, the entity type it is about ("" when none), its
\* integer argument (0 when none), its boolean argument (FALSE when none),
\* and whether it raised.
Call(op, entity_type, index, flag, raised) ==
    [op |-> op, entity_type |-> entity_type, index |-> index,
     flag |-> flag, raised |-> raised]

NoCall == Call("init", "", 0, FALSE, FALSE)

HeldOf(scs) ==
    [k \in DOMAIN scs |->
        [telescopes |-> Range(scs[k].telescope_indices),
         frequencies |-> Range(scs[k].frequency_indices)]]

\* The scans are the same objects: what they hold now is added.
HeldMore(scs) ==
    [k \in DOMAIN scs |->
        [telescopes |-> held[k].telescopes \cup Range(scs[k].telescope_indices),
         frequencies |-> held[k].frequencies \cup Range(scs[k].frequency_indices)]]

\* A call and what it returned.
RecordCall(call, value) ==
    /\ steps < MaxSteps
    /\ last' = call
    /\ ret' = value
    /\ pre' = Snapshot
    /\ pre2' = pre
    /\ steps' = steps + 1

\* A call on the observation that returns a value.
RecordReturning(call, value) ==
    /\ RecordCall(call, value)
    /\ catalogs' = catalogs
    /\ manipulator' = manipulator

\* A call that returns None and leaves the observation's own attributes.
Record(call) ==
    /\ RecordReturning(call, None)
    /\ attrs' = attrs

----------------------------------------------------------------------------
\* Inputs

InitCollection == [k \in 1 .. InitLen |-> Entity(k, TRUE)]
InitFrequencies == [k \in 1 .. InitLen |-> IF_(k, 1, TRUE)]

\* Collections handed to set_sources/set_telescopes/set_frequencies.
NewCollections == {[k \in 1 .. n |-> Entity(k, TRUE)] : n \in 0 .. MaxLen}
NewFrequencies == {[k \in 1 .. n |-> IF_(k, 1, TRUE)] : n \in 0 .. MaxLen}

\* Scans whose indices are positions of a collection of InitLen entities.
ScanA == Scan(0, 10, Some(0), <<0, 1, InitLen - 1>>, <<0, InitLen - 1>>, FALSE, TRUE)
ScanB == Scan(10, 10, Some(InitLen - 1), <<InitLen - 1, 0>>, <<1>>, FALSE, TRUE)
ScanC == Scan(5, 10, None, <<1>>, <<>>, TRUE, FALSE)

InitScans == {<<ScanA, ScanB>>, <<ScanB, ScanC>>, <<ScanC, ScanA>>}

\* Scans handed to set_scans.
NewScans == {<<>>, <<ScanB>>}

EmptyData == [k \in {} |-> 0]

\* Observation.__init__: the defaults of the constructor; _sefd is not set.
InitAttrs ==
    [observation_code |-> "OBS_DEFAULT", observation_type |-> "VLBI",
     isactive |-> TRUE, sefd |-> None]

\* CatalogManager.__init__ with no file: Sources() and Telescopes().
EmptyCatalogs == [source_catalog |-> <<>>, telescope_catalog |-> <<>>]

\* Manipulator.__init__ with no project: the project "DefaultProject" with
\* no observation, and no collaborator set.
NewManipulator ==
    [name |-> "DefaultProject", observations |-> <<>>,
     configurator |-> FALSE, calculator |-> FALSE, vizualizator |-> FALSE,
     optimizator |-> FALSE]

\* The history of an observation that has just been built, beside a
\* catalog manager and a manipulator; the manipulator is given first.
InitHistory ==
    /\ catalogs = EmptyCatalogs
    /\ ret = None
    /\ last = NoCall
    /\ pre = [sources |-> sources, telescopes |-> telescopes,
              frequencies |-> frequencies, scans |-> scans,
              calculated_data |-> calculated_data, attrs |-> attrs,
              catalogs |-> catalogs, manipulator |-> manipulator,
              held |-> HeldOf(scans), last |-> NoCall]
    /\ pre2 = pre
    /\ held = HeldOf(scans)
    /\ steps = 0

\* Frequencies collections without two IFs of one frequency: each is what
\* add_frequency calls leave of an empty collection.
FreqInputs ==
    {<<>>,
     <<IF_(1, 1, TRUE)>>,
     <<IF_(1, 2, FALSE), IF_(2, 1, TRUE)>>,
     <<IF_(2, 1, TRUE), IF_(1, 2, FALSE), IF_(3, 0, FALSE)>>}

\* An observation with a Frequencies collection and no scan.
InitFreq ==
    /\ sources = InitCollection
    /\ telescopes = InitCollection
    /\ frequencies \in FreqInputs
    /\ scans = <<>>
    /\ calculated_data = EmptyData
    /\ attrs = InitAttrs
    /\ manipulator = NewManipulator
    /\ InitHistory

\* Collections of InitLen sources or telescopes: all active and valid; the
\* first inactive and invalid; the first active and invalid; none active.
EntityInputs ==
    {InitCollection,
     [InitCollection EXCEPT ![1].isactive = FALSE, ![1].valid = FALSE],
     [InitCollection EXCEPT ![1].valid = FALSE],
     [k \in 1 .. InitLen |-> Entity(k, FALSE)]}

FrequencyInputs ==
    {InitFrequencies, [k \in 1 .. InitLen |-> IF_(k, 1, FALSE)]}

\* Scans with intervals: Scan1 [0, 10) and Scan2 [10, 20) touch and share
\* telescope 1; Scan3 [5, 15) shares telescope 0 with Scan1 and no
\* telescope with Scan2.  In the last input Scan1 and Scan3 overlap and the
\* scan that starts after them fails the availability check.
Scan1 == Scan(0, 10, Some(0), <<0, 1>>, <<0>>, FALSE, TRUE)
Scan2 == Scan(10, 10, Some(1), <<1, InitLen - 1>>, <<0>>, FALSE, TRUE)
Scan3 == Scan(5, 10, Some(0), <<0>>, <<1>>, FALSE, TRUE)

ScanInputs ==
    {<<>>,
     <<Scan1, Scan2>>, <<Scan2, Scan1>>,
     <<Scan1, Scan3>>, <<Scan3, Scan1>>,
     <<Scan2, Scan3>>,
     <<Scan3, Scan2, Scan1>>,
     <<Scan1, [Scan3 EXCEPT !.isactive = FALSE, !.valid = FALSE]>>,
     <<Scan1, [Scan2 EXCEPT !.valid = FALSE]>>,
     <<[Scan1 EXCEPT !.available = FALSE], Scan2>>,
     <<Scan1, Scan3, [Scan2 EXCEPT !.available = FALSE]>>}

\* An observation as the constructor, the setters of the collections and
\* Configurator.set_sefd leave it.
InitObs ==
    /\ sources \in EntityInputs
    /\ telescopes \in EntityInputs
    /\ frequencies \in FrequencyInputs
    /\ scans \in ScanInputs
    /\ calculated_data = EmptyData
    /\ attrs \in {[InitAttrs EXCEPT !.sefd = v] : v \in {None, Some(1)}}
    /\ manipulator = NewManipulator
    /\ InitHistory

Init ==
    /\ sources = InitCollection
    /\ telescopes = InitCollection
    /\ frequencies = InitFrequencies
    /\ scans \in InitScans
    /\ calculated_data = EmptyData
    /\ attrs = InitAttrs
    /\ manipulator = NewManipulator
    /\ InitHistory

----------------------------------------------------------------------------
\* Observation: bulk replacement and the store of calculated data

\* An argument of a setter: the class of the object and, for a collection,
\* its members.
Obj(cls, data) == [cls |-> cls, data |-> data]

\* check_type(obj, cls, name) raises when obj is not an instance of cls.
check_type(obj, cls) == obj.cls = cls

\* Mutant: the collection is replaced and the calculated data kept.
set_sources_keeps_data(new) ==
    LET raised == ~check_type(new, "Sources")
    IN  /\ Record(Call("set_sources", "sources", 0, raised, raised))
        /\ sources' = (IF raised THEN sources ELSE new.data)
        /\ held' = held
        /\ UNCHANGED <<telescopes, frequencies, scans, calculated_data>>

\* The four setters record the call with the flag TRUE when the argument
\* is of the wrong type.
set_sources(new) ==
    LET raised == ~check_type(new, "Sources")
    IN  /\ Record(Call("set_sources", "sources", 0, raised, raised))
        /\ sources' = (IF raised THEN sources ELSE new.data)
        /\ calculated_data' = (IF raised THEN calculated_data ELSE EmptyData)
        /\ held' = held
        /\ UNCHANGED <<telescopes, frequencies, scans>>

\* Mutant: the assignment and the clearing come before the test of the type.
set_telescopes_assigns_first(new) ==
    LET raised == ~check_type(new, "Telescopes")
    IN  /\ Record(Call("set_telescopes", "telescopes", 0, raised, raised))
        /\ telescopes' = new.data
        /\ calculated_data' = EmptyData
        /\ held' = held
        /\ UNCHANGED <<sources, frequencies, scans>>

set_telescopes(new) ==
    LET raised == ~check_type(new, "Telescopes")
    IN  /\ Record(Call("set_telescopes", "telescopes", 0, raised, raised))
        /\ telescopes' = (IF raised THEN telescopes ELSE new.data)
        /\ calculated_data' = (IF raised THEN calculated_data ELSE EmptyData)
        /\ held' = held
        /\ UNCHANGED <<sources, frequencies, scans>>

set_frequencies(new) ==
    LET raised == ~check_type(new, "Frequencies")
    IN  /\ Record(Call("set_frequencies", "frequencies", 0, raised, raised))
        /\ frequencies' = (IF raised THEN frequencies ELSE new.data)
        /\ calculated_data' = (IF raised THEN calculated_data ELSE EmptyData)
        /\ held' = held
        /\ UNCHANGED <<sources, telescopes, scans>>

set_scans(new) ==
    LET raised == ~check_type(new, "Scans")
    IN  /\ Record(Call("set_scans", "", 0, raised, raised))
        /\ scans' = (IF raised THEN scans ELSE new.data)
        /\ calculated_data' = (IF raised THEN calculated_data ELSE EmptyData)
        /\ held' = (IF raised THEN held ELSE HeldOf(new.data))
        /\ UNCHANGED <<sources, telescopes, frequencies>>

ObservationTypes == {"VLBI", "SINGLE_DISH"}

\* The argument None, and the collection an optional argument stands for:
\* "sources if sources is not None else Sources()".
NoneArg == Obj("NoneType", <<>>)
GivenOrEmpty(obj) == IF obj = NoneArg THEN <<>> ELSE obj.data

\* Lines 50 and 54-61: check_type of the code, and of each collection
\* that is not None.
set_observation_type_error(code, srcs, tels, freqs, scs) ==
    \/ ~check_type(code, "str")
    \/ srcs # NoneArg /\ ~check_type(srcs, "Sources")
    \/ tels # NoneArg /\ ~check_type(tels, "Telescopes")
    \/ freqs # NoneArg /\ ~check_type(freqs, "Frequencies")
    \/ scs # NoneArg /\ ~check_type(scs, "Scans")

\* Mutant: the type is assigned without the test of lines 51-53.
set_observation_any_type(code, srcs, tels, freqs, scs, type, isactive) ==
    LET raised == set_observation_type_error(code, srcs, tels, freqs, scs)
    IN  /\ RecordReturning(Call("set_observation", type, 0, isactive, raised),
                           None)
        /\ attrs' = (IF raised THEN attrs
                     ELSE [attrs EXCEPT !.observation_code = code.data,
                                        !.observation_type = type,
                                        !.isactive = isactive])
        /\ sources' = (IF raised THEN sources ELSE GivenOrEmpty(srcs))
        /\ telescopes' = (IF raised THEN telescopes ELSE GivenOrEmpty(tels))
        /\ frequencies' = (IF raised THEN frequencies ELSE GivenOrEmpty(freqs))
        /\ scans' = (IF raised THEN scans ELSE GivenOrEmpty(scs))
        /\ calculated_data' = (IF raised THEN calculated_data ELSE EmptyData)
        /\ held' = (IF raised THEN held ELSE HeldOf(GivenOrEmpty(scs)))

\* set_observation: a code that is not a str raises TypeError, a type
\* that is neither "VLBI" nor "SINGLE_DISH" raises ValueError, and a
\* collection that is given and is not of its class raises TypeError, all
\* before any assignment; a collection not given (None) becomes an empty
\* one.  The call is recorded with the type in the place of the entity
\* type.
set_observation(code, srcs, tels, freqs, scs, type, isactive) ==
    LET raised == \/ type \notin ObservationTypes
                  \/ set_observation_type_error(code, srcs, tels, freqs, scs)
    IN  /\ RecordReturning(Call("set_observation", type, 0, isactive, raised),
                           None)
        /\ attrs' = (IF raised THEN attrs
                     ELSE [attrs EXCEPT !.observation_code = code.data,
                                        !.observation_type = type,
                                        !.isactive = isactive])
        /\ sources' = (IF raised THEN sources ELSE GivenOrEmpty(srcs))
        /\ telescopes' = (IF raised THEN telescopes ELSE GivenOrEmpty(tels))
        /\ frequencies' = (IF raised THEN frequencies ELSE GivenOrEmpty(freqs))
        /\ scans' = (IF raised THEN scans ELSE GivenOrEmpty(scs))
        /\ calculated_data' = (IF raised THEN calculated_data ELSE EmptyData)
        /\ held' = (IF raised THEN held ELSE HeldOf(GivenOrEmpty(scs)))

\* Observation.set_observation_code: check_type of the code, then the
\* assignment; the empty string is a str and is accepted.  The call is
\* recorded with the code in the place of the entity type.
set_observation_code(code) ==
    LET raised == ~check_type(code, "str")
    IN  /\ RecordReturning(Call("set_observation_code", code.data, 0, FALSE,
                                raised), None)
        /\ attrs' = (IF raised THEN attrs
                     ELSE [attrs EXCEPT !.observation_code = code.data])
        /\ held' = held
        /\ UNCHANGED <<sources, telescopes, frequencies, scans,
                       calculated_data>>

\* Configurator.set_observation_code: check_non_empty_string, which a
\* value that is not a str and the empty string fail, then the assignment
\* of observation._observation_code.
configurator_set_observation_code(code) ==
    LET raised == ~check_type(code, "str") \/ code.data = ""
    IN  /\ RecordReturning(Call("configurator_set_observation_code",
                                code.data, 0, FALSE, raised), None)
        /\ attrs' = (IF raised THEN attrs
                     ELSE [attrs EXCEPT !.observation_code = code.data])
        /\ held' = held
        /\ UNCHANGED <<sources, telescopes, frequencies, scans,
                       calculated_data>>

\* Observation.activate / deactivate: BaseEntity sets the observation's
\* own flag; no member and no scan is touched.
observation_set_active(flag) ==
    /\ RecordReturning(Call(IF flag THEN "activate" ELSE "deactivate", "", 0,
                            flag, FALSE), None)
    /\ attrs' = [attrs EXCEPT !.isactive = flag]
    /\ held' = held
    /\ UNCHANGED <<sources, telescopes, frequencies, scans, calculated_data>>

\* Configurator.set_observation_type: check_non_empty_string, then the test
\* of the type, then observation._observation_type = obs_type.
set_observation_type(obs_type) ==
    LET raised == obs_type = "" \/ obs_type \notin ObservationTypes
    IN  /\ RecordReturning(Call("set_observation_type", obs_type, 0, FALSE,
                                raised), None)
        /\ attrs' = (IF raised THEN attrs
                     ELSE [attrs EXCEPT !.observation_type = obs_type])
        /\ held' = held
        /\ UNCHANGED <<sources, telescopes, frequencies, scans,
                       calculated_data>>

\* check_non_empty_string(value, name) raises for the empty string.
check_non_empty_string(value) == value # ""

\* Observation.set_calculated_data: check_non_empty_string on the key, then
\* the store.  The call is recorded with its key in the place of the entity
\* type and its value in the place of the integer argument.
set_calculated_data(key, data) ==
    LET raised == ~check_non_empty_string(key)
    IN  /\ Record(Call("set_calculated_data", key, data, FALSE, raised))
        /\ calculated_data' =
               IF raised THEN calculated_data
               ELSE [k \in DOMAIN calculated_data \cup {key} |->
                        IF k = key THEN data ELSE calculated_data[k]]
        /\ held' = held
        /\ UNCHANGED <<sources, telescopes, frequencies, scans>>

\* Observation.get_calculated_data: check_non_empty_string on the key, then
\* dict.get(key): the value, or None.
get_calculated_data(key) ==
    IF ~check_non_empty_string(key) THEN ValueError
    ELSE IF key \in DOMAIN calculated_data THEN Some(calculated_data[key])
    ELSE None

\* A call of get_calculated_data: what it returns is kept, and a call that
\* raised returns nothing.
call_get_calculated_data(key) ==
    LET raised == ~check_non_empty_string(key)
    IN  /\ RecordReturning(Call("get_calculated_data", key, 0, FALSE, raised),
                           IF raised THEN None ELSE get_calculated_data(key))
        /\ attrs' = attrs
        /\ held' = held
        /\ UNCHANGED <<sources, telescopes, frequencies, scans,
                       calculated_data>>

----------------------------------------------------------------------------
\* Observation: structural changes

remove_source(index) ==
    /\ IF SpecRemoveAccepts(sources, index)
       THEN /\ Record(Call("remove_source", "sources", index, FALSE, FALSE))
            /\ sources' = ListPop(sources, index)
            /\ scans' = update_scan_indices(scans, "sources", Some(index), None)
       ELSE /\ Record(Call("remove_source", "sources", index, FALSE, TRUE))
            /\ UNCHANGED <<sources, scans>>
    /\ held' = HeldMore(scans')
    /\ UNCHANGED <<telescopes, frequencies, calculated_data>>

insert_source(source, index) ==
    /\ Len(sources) < MaxLen
    /\ Record(Call("insert_source", "sources", index, FALSE, FALSE))
    /\ sources' = ListInsert(sources, index, source)
    /\ scans' = update_scan_indices(scans, "sources", None, Some(index))
    /\ held' = HeldMore(scans')
    /\ UNCHANGED <<telescopes, frequencies, calculated_data>>

\* Mutant: the scans are reindexed before the collection is asked.
remove_telescope_reindex_first(index) ==
    /\ IF SpecRemoveAccepts(telescopes, index)
       THEN /\ Record(Call("remove_telescope", "telescopes", index, FALSE, FALSE))
            /\ telescopes' = ListPop(telescopes, index)
       ELSE /\ Record(Call("remove_telescope", "telescopes", index, FALSE, TRUE))
            /\ UNCHANGED telescopes
    /\ scans' = update_scan_indices(scans, "telescopes", Some(index), None)
    /\ held' = HeldMore(scans')
    /\ UNCHANGED <<sources, frequencies, calculated_data>>

remove_telescope(index) ==
    /\ IF SpecRemoveAccepts(telescopes, index)
       THEN /\ Record(Call("remove_telescope", "telescopes", index, FALSE, FALSE))
            /\ telescopes' = ListPop(telescopes, index)
            /\ scans' = update_scan_indices(scans, "telescopes", Some(index), None)
       ELSE /\ Record(Call("remove_telescope", "telescopes", index, FALSE, TRUE))
            /\ UNCHANGED <<telescopes, scans>>
    /\ held' = HeldMore(scans')
    /\ UNCHANGED <<sources, frequencies, calculated_data>>

\* Mutant: the telescope is appended, and the scans are reindexed for the
\* position given.
insert_telescope_appends(telescope, index) ==
    /\ Len(telescopes) < MaxLen
    /\ Record(Call("insert_telescope", "telescopes", index, FALSE, FALSE))
    /\ telescopes' = Append(telescopes, telescope)
    /\ scans' = update_scan_indices(scans, "telescopes", None, Some(index))
    /\ held' = HeldMore(scans')
    /\ UNCHANGED <<sources, frequencies, calculated_data>>

insert_telescope(telescope, index) ==
    /\ Len(telescopes) < MaxLen
    /\ Record(Call("insert_telescope", "telescopes", index, FALSE, FALSE))
    /\ telescopes' = ListInsert(telescopes, index, telescope)
    /\ scans' = update_scan_indices(scans, "telescopes", None, Some(index))
    /\ held' = HeldMore(scans')
    /\ UNCHANGED <<sources, frequencies, calculated_data>>

\* Observation.remove_frequency: Frequencies.remove_frequency, which does
\* self._data.pop(index), then the reindexing of the scans.
remove_frequency(index) ==
    /\ IF ListPopAccepts(frequencies, index)
       THEN /\ Record(Call("remove_frequency", "frequencies", index, FALSE, FALSE))
            /\ frequencies' = ListPop(frequencies, index)
            /\ scans' = update_scan_indices(scans, "frequencies", Some(index), None)
       ELSE /\ Record(Call("remove_frequency", "frequencies", index, FALSE, TRUE))
            /\ UNCHANGED <<frequencies, scans>>
    /\ held' = HeldMore(scans')
    /\ UNCHANGED <<sources, telescopes, calculated_data>>

\* Mutant: the scans are reindexed for the position after the inserted one.
insert_frequency_reindex_above(if_obj, index) ==
    /\ Len(frequencies) < MaxLen
    /\ Record(Call("insert_frequency", "frequencies", index, FALSE, FALSE))
    /\ frequencies' = ListInsert(frequencies, index, if_obj)
    /\ scans' = update_scan_indices(scans, "frequencies", None, Some(index + 1))
    /\ held' = HeldMore(scans')
    /\ UNCHANGED <<sources, telescopes, calculated_data>>

insert_frequency(if_obj, index) ==
    /\ Len(frequencies) < MaxLen
    /\ Record(Call("insert_frequency", "frequencies", index, FALSE, FALSE))
    /\ frequencies' = ListInsert(frequencies, index, if_obj)
    /\ scans' = update_scan_indices(scans, "frequencies", None, Some(index))
    /\ held' = HeldMore(scans')
    /\ UNCHANGED <<sources, telescopes, calculated_data>>

----------------------------------------------------------------------------
\* Configurator: removal of a scan

\* Configurator.remove_scan: scans.get_scan(index) and
\* scans.remove_scan(index) inside try, and 'except IndexError' that logs a
\* warning and returns.  Scans raises IndexError for a position outside
\* [0, len).
configurator_remove_scan(index) ==
    /\ Record(Call("remove_scan", "scans", index, FALSE, FALSE))
    /\ scans' = (IF SpecRemoveAccepts(scans, index)
                 THEN ListPop(scans, index) ELSE scans)
    /\ held' = (IF SpecRemoveAccepts(scans, index)
                THEN ListPop(held, index) ELSE held)
    /\ UNCHANGED <<sources, telescopes, frequencies, calculated_data>>

----------------------------------------------------------------------------
\* Activation

\* BaseEntity.activate / deactivate on the entity at a position.
SetActive(coll, pos, flag) == [coll EXCEPT ![pos + 1].isactive = flag]

set_entity_active(entity_type, pos, flag) ==
    /\ pos \in 0 .. Len(AllEntities(entity_type)) - 1
    /\ Record(Call("set_active", entity_type, pos, flag, FALSE))
    /\ sources' = (IF entity_type = "sources"
                   THEN SetActive(sources, pos, flag) ELSE sources)
    /\ telescopes' = (IF entity_type = "telescopes"
                      THEN SetActive(telescopes, pos, flag) ELSE telescopes)
    /\ frequencies' = (IF entity_type = "frequencies"
                       THEN SetActive(frequencies, pos, flag) ELSE frequencies)
    /\ held' = held
    /\ UNCHANGED <<scans, calculated_data>>

\* Lines 324-326: an entity type that is not a key of entity_map raises
\* ValueError before the walk.
sync(entity_type, index, is_active) ==
    LET all_entities == AllEntities(entity_type)
        raised == \/ entity_type \notin EntityTypes
                  \/ SyncRaises(scans, entity_type, index, is_active,
                                all_entities)
    IN  /\ Record(Call("sync", entity_type, index, is_active, raised))
        /\ scans' = (IF raised THEN scans
                     ELSE sync_scans_with_activation(scans, entity_type, index,
                                                     is_active, all_entities))
        /\ held' = HeldMore(scans')
        /\ UNCHANGED <<sources, telescopes, frequencies, calculated_data>>

\* The integer a call of _update_scan_indices is recorded with: the removed
\* index, else the inserted one, else 0.
ReindexArgument(removed_index, inserted_index) ==
    IF removed_index # None THEN Val(removed_index)
    ELSE IF inserted_index # None THEN Val(inserted_index)
    ELSE 0

\* Mutant: the entity type is not tested and the walk takes the branch of
\* the index lists.
reindex_unchecked(entity_type, removed_index, inserted_index) ==
    /\ Record(Call("update_scan_indices", entity_type,
                   ReindexArgument(removed_index, inserted_index),
                   removed_index = None, FALSE))
    /\ scans' = update_scan_indices(scans, entity_type, removed_index,
                                    inserted_index)
    /\ held' = HeldMore(scans')
    /\ UNCHANGED <<sources, telescopes, frequencies, calculated_data>>

\* Observation._update_scan_indices called on its own: lines 150-152 raise
\* ValueError for an entity type that is not a key of entity_map, before
\* the walk.  The call is recorded with the flag FALSE for a removed index.
reindex(entity_type, removed_index, inserted_index) ==
    LET raised == entity_type \notin EntityTypes
    IN  /\ Record(Call("update_scan_indices", entity_type,
                       ReindexArgument(removed_index, inserted_index),
                       removed_index = None, raised))
        /\ scans' = (IF raised THEN scans
                     ELSE update_scan_indices(scans, entity_type,
                                              removed_index, inserted_index))
        /\ held' = HeldMore(scans')
        /\ UNCHANGED <<sources, telescopes, frequencies, calculated_data>>

----------------------------------------------------------------------------
\* Frequencies: the collection's own operations

\* Mutant: the IF is appended without the test for an equal frequency.
add_frequency_unchecked(if_obj) ==
    /\ Len(frequencies) < MaxLen
    /\ Record(Call("add_frequency", "frequencies", if_obj._frequency,
                   if_obj.isactive, FALSE))
    /\ frequencies' = Append(frequencies, if_obj)
    /\ held' = held
    /\ UNCHANGED <<sources, telescopes, scans, calculated_data>>

\* Frequencies.add_frequency (Configurator.add_frequency passes the call
\* on): ValueError when an IF of the collection has the frequency of the
\* new one, the IF appended otherwise.  The call is recorded with the
\* frequency and the active flag of the new IF.
add_frequency(if_obj) ==
    LET raised == \E k \in DOMAIN frequencies :
                      frequencies[k]._frequency = if_obj._frequency
    IN  /\ raised \/ Len(frequencies) < MaxLen
        /\ Record(Call("add_frequency", "frequencies", if_obj._frequency,
                       if_obj.isactive, raised))
        /\ frequencies' = (IF raised THEN frequencies
                           ELSE Append(frequencies, if_obj))
        /\ held' = held
        /\ UNCHANGED <<sources, telescopes, scans, calculated_data>>

\* Frequencies.remove_frequency called on the collection itself
\* (obs.get_frequencies().remove_frequency(index)): self._data.pop(index),
\* with IndexError raised again; the scans are not reindexed.
frequencies_remove_frequency(index) ==
    LET raised == ~ListPopAccepts(frequencies, index)
    IN  /\ Record(Call("frequencies_remove_frequency", "frequencies", index,
                       FALSE, raised))
        /\ frequencies' = (IF raised THEN frequencies
                           ELSE ListPop(frequencies, index))
        /\ held' = held
        /\ UNCHANGED <<sources, telescopes, scans, calculated_data>>

\* Frequencies.clear: self._data.clear(); the scans and the calculated
\* data of the observation are left.
frequencies_clear ==
    /\ Record(Call("frequencies_clear", "frequencies", 0, FALSE, FALSE))
    /\ frequencies' = <<>>
    /\ held' = held
    /\ UNCHANGED <<sources, telescopes, scans, calculated_data>>

\* The speed of light in MHz cm, 29979.2458, counted in units of
\* 10^-4 MHz cm: the wavelengths are counted in units of 10^-4 cm.
C_MHZ_CM == 299792458

\* The setters of an IF act on the IF at a position of the collection
\* (obs.get_frequencies().get_data()[pos]); they know nothing of the
\* collection, so no test for an equal frequency is made, and nothing of
\* the scans.  Each call is recorded with the position and the flag.

\* IF.set_if: both values are checked, then frequency, bandwidth and flag
\* are assigned.
IF_set_if(pos, freq, bandwidth, isactive) ==
    LET raised == ~check_non_negative(freq) \/ ~check_non_negative(bandwidth)
    IN  /\ pos \in 0 .. Len(frequencies) - 1
        /\ Record(Call("set_if", "frequencies", pos, isactive, raised))
        /\ frequencies' = (IF raised THEN frequencies
                           ELSE [frequencies EXCEPT ![pos + 1] = IF_(freq, bandwidth, isactive)])
        /\ held' = held
        /\ UNCHANGED <<sources, telescopes, scans, calculated_data>>

\* IF.set_frequency: the frequency and the flag are assigned.
IF_set_frequency(pos, freq, isactive) ==
    LET raised == ~check_non_negative(freq)
    IN  /\ pos \in 0 .. Len(frequencies) - 1
        /\ Record(Call("set_frequency", "frequencies", pos, isactive, raised))
        /\ frequencies' = (IF raised THEN frequencies
                           ELSE [frequencies EXCEPT ![pos + 1]._frequency = freq,
                                                    ![pos + 1].isactive = isactive])
        /\ held' = held
        /\ UNCHANGED <<sources, telescopes, scans, calculated_data>>

\* IF.set_bandwidth
IF_set_bandwidth(pos, bandwidth) ==
    LET raised == ~check_non_negative(bandwidth)
    IN  /\ pos \in 0 .. Len(frequencies) - 1
        /\ Record(Call("set_bandwidth", "frequencies", pos, FALSE, raised))
        /\ frequencies' = (IF raised THEN frequencies
                           ELSE [frequencies EXCEPT ![pos + 1]._bandwidth = bandwidth])
        /\ held' = held
        /\ UNCHANGED <<sources, telescopes, scans, calculated_data>>

\* IF.set_frequency_wavelength: self._frequency = C_MHZ_CM / wavelength_cm.
\* The wavelengths handed in divide C_MHZ_CM by a power of two, for which
\* the quotient of the floating-point division is the whole number.
IF_set_frequency_wavelength(pos, wavelength_cm) ==
    LET raised == ~check_positive(wavelength_cm)
    IN  /\ pos \in 0 .. Len(frequencies) - 1
        /\ Record(Call("set_frequency_wavelength", "frequencies", pos, FALSE,
                       raised))
        /\ frequencies' = (IF raised THEN frequencies
                           ELSE [frequencies EXCEPT ![pos + 1]._frequency = C_MHZ_CM \div wavelength_cm])
        /\ held' = held
        /\ UNCHANGED <<sources, telescopes, scans, calculated_data>>

\* Mutant: an empty collection is accepted and left as it is.
activate_all_accepts_empty ==
    /\ Record(Call("activate_all", "frequencies", 0, TRUE, FALSE))
    /\ frequencies' = [k \in DOMAIN frequencies |->
                          [frequencies[k] EXCEPT !.isactive = TRUE]]
    /\ held' = held
    /\ UNCHANGED <<sources, telescopes, scans, calculated_data>>

\* Frequencies.activate_all: ValueError on an empty collection, every IF
\* activated otherwise.
activate_all ==
    LET raised == frequencies = <<>>
    IN  /\ Record(Call("activate_all", "frequencies", 0, TRUE, raised))
        /\ frequencies' = [k \in DOMAIN frequencies |->
                              [frequencies[k] EXCEPT !.isactive = TRUE]]
        /\ held' = held
        /\ UNCHANGED <<sources, telescopes, scans, calculated_data>>

\* Frequencies.deactivate_all
deactivate_all ==
    LET raised == frequencies = <<>>
    IN  /\ Record(Call("deactivate_all", "frequencies", 0, FALSE, raised))
        /\ frequencies' = [k \in DOMAIN frequencies |->
                              [frequencies[k] EXCEPT !.isactive = FALSE]]
        /\ held' = held
        /\ UNCHANGED <<sources, telescopes, scans, calculated_data>>

\* [if_obj for if_obj in self._data if if_obj.isactive]
RECURSIVE get_active_frequencies(_)
get_active_frequencies(data) ==
    IF data = <<>> THEN <<>>
    ELSE IF Head(data).isactive
    THEN <<Head(data)>> \o get_active_frequencies(Tail(data))
    ELSE get_active_frequencies(Tail(data))

\* Mutant: the test of the flag is the one of get_active_frequencies.
get_inactive_frequencies_same_test(data) ==
    SelectSeq(data, LAMBDA x : x.isactive)

\* [if_obj for if_obj in self._data if not if_obj.isactive]
RECURSIVE get_inactive_frequencies(_)
get_inactive_frequencies(data) ==
    IF data = <<>> THEN <<>>
    ELSE IF ~Head(data).isactive
    THEN <<Head(data)>> \o get_inactive_frequencies(Tail(data))
    ELSE get_inactive_frequencies(Tail(data))

\* A call of Frequencies.get_active_frequencies: the list it returns is kept.
call_get_active_frequencies ==
    /\ RecordReturning(Call("get_active_frequencies", "frequencies", 0,
                            TRUE, FALSE),
                       get_active_frequencies(frequencies))
    /\ attrs' = attrs
    /\ held' = held
    /\ UNCHANGED <<sources, telescopes, frequencies, scans, calculated_data>>

\* A call of Frequencies.get_inactive_frequencies
call_get_inactive_frequencies ==
    /\ RecordReturning(Call("get_inactive_frequencies", "frequencies", 0,
                            FALSE, FALSE),
                       get_inactive_frequencies(frequencies))
    /\ attrs' = attrs
    /\ held' = held
    /\ UNCHANGED <<sources, telescopes, frequencies, scans, calculated_data>>

\* IF.to_dict: the dictionary of the three attributes.
IF_to_dict(if_obj) ==
    [frequency |-> if_obj._frequency, bandwidth |-> if_obj._bandwidth,
     isactive |-> if_obj.isactive]

\* Mutant: the flag is not read and the default of the constructor is taken.
IF_from_dict_default_flag(data) ==
    IF_(data.frequency, data.bandwidth, TRUE)

\* IF.from_dict: the constructor on the three entries.  The entries of a
\* dictionary made by to_dict are not negative, so that the constructor
\* accepts them.
IF_from_dict(data) ==
    IF_(data.frequency, data.bandwidth, data.isactive)

\* Frequencies.to_dict
Frequencies_to_dict(data) ==
    [data |-> [k \in DOMAIN data |-> IF_to_dict(data[k])]]

\* Frequencies.from_dict: the _data of the collection it builds.
Frequencies_from_dict(d) ==
    [k \in DOMAIN d.data |-> IF_from_dict(d.data[k])]

frequencies_to_dict ==
    /\ RecordReturning(Call("frequencies_to_dict", "frequencies", 0,
                            FALSE, FALSE),
                       Frequencies_to_dict(frequencies))
    /\ attrs' = attrs
    /\ held' = held
    /\ UNCHANGED <<sources, telescopes, frequencies, scans, calculated_data>>

\* Frequencies.from_dict on the dictionary the last call returned.
frequencies_from_dict ==
    /\ last.op = "frequencies_to_dict"
    /\ RecordReturning(Call("frequencies_from_dict", "frequencies", 0,
                            FALSE, FALSE),
                       Frequencies_from_dict(ret))
    /\ attrs' = attrs
    /\ held' = held
    /\ UNCHANGED <<sources, telescopes, frequencies, scans, calculated_data>>

----------------------------------------------------------------------------
\* Observation: validation

\* The observation as one value: its own attributes and its collections.
ThisObservation ==
    [observation_code |-> attrs.observation_code,
     observation_type |-> attrs.observation_type,
     isactive |-> attrs.isactive, sefd |-> attrs.sefd,
     sources |-> sources, telescopes |-> telescopes,
     frequencies |-> frequencies, scans |-> scans,
     calculated_data |-> calculated_data]

\* Configurator.set_sefd: check_positive, then observation._sefd = sefd.
set_sefd(sefd) ==
    LET raised == sefd <= 0
    IN  /\ RecordReturning(Call("set_sefd", "", sefd, FALSE, raised), None)
        /\ attrs' = (IF raised THEN attrs ELSE [attrs EXCEPT !.sefd = Some(sefd)])
        /\ held' = held
        /\ UNCHANGED <<sources, telescopes, frequencies, scans, calculated_data>>

\* What validate() gives: an exception, or True or False with the reason
\* it logs.
ValidateResult(raised, value, reason) ==
    [raised |-> raised, value |-> value, reason |-> reason]

\* get_active_sources / get_active_telescopes / get_active_scans
ActiveOf(data) == SelectSeq(data, LAMBDA x : x.isactive)

\* The validate() of a frequency: the conditions of IF.__init__.
IF_validate(if_obj) == if_obj._frequency >= 0 /\ if_obj._bandwidth >= 0

\* sorted(..., key=lambda x: x.get_start()): scans of one start keep their
\* order.
InsertByStart(sorted, scan) ==
    LET n == Cardinality({k \in DOMAIN sorted : sorted[k].start <= scan.start})
    IN  SubSeq(sorted, 1, n) \o <<scan>> \o SubSeq(sorted, n + 1, Len(sorted))

RECURSIVE SortedByStart(_)
SortedByStart(scs) ==
    IF scs = <<>> THEN <<>>
    ELSE InsertByStart(SortedByStart(SubSeq(scs, 1, Len(scs) - 1)),
                       scs[Len(scs)])

\* scan.get_telescopes().get_active_telescopes(), as telescope codes: the
\* telescopes the scan references that are active.
RECURSIVE ScanActiveTelescopes(_, _)
ScanActiveTelescopes(tels, idxs) ==
    IF idxs = <<>> THEN <<>>
    ELSE LET rest == ScanActiveTelescopes(tels, Tail(idxs))
         IN  IF 0 <= Head(idxs) /\ Head(idxs) < Len(tels)
                /\ tels[Head(idxs) + 1].isactive
             THEN <<tels[Head(idxs) + 1].id>> \o rest
             ELSE rest

\* Mutant: intervals that touch are taken as overlapping.
OverlapOrTouch(scan_start, scan_end, prev_start, prev_end) ==
    ~(scan_end < prev_start \/ scan_start > prev_end)

\* Line 304: not (scan_end <= prev_start or scan_start >= prev_end)
Overlap(scan_start, scan_end, prev_start, prev_end) ==
    ~(scan_end <= prev_start \/ scan_start >= prev_end)

\* Lines 300-309: the loop over the active telescopes of one scan.
\* telescope_scans holds <<code, start, end>> for every interval stored
\* under a telescope code.
RECURSIVE TelescopeLoop(_, _, _, _)
TelescopeLoop(codes, scan_start, scan_end, telescope_scans) ==
    IF codes = <<>> THEN [ok |-> TRUE, telescope_scans |-> telescope_scans]
    ELSE IF \E prev \in telescope_scans :
               /\ prev[1] = Head(codes)
               /\ Overlap(scan_start, scan_end, prev[2], prev[3])
    THEN [ok |-> FALSE, telescope_scans |-> telescope_scans]
    ELSE TelescopeLoop(Tail(codes), scan_start, scan_end,
                       telescope_scans \cup
                           {<<Head(codes), scan_start, scan_end>>})

\* Lines 290-309: the loop over the active scans in the order of their
\* starts; the reason of the first failure, "" when there is none.
RECURSIVE TemporalLoop(_, _, _)
TemporalLoop(tels, active_scans, telescope_scans) ==
    IF active_scans = <<>> THEN ""
    ELSE LET scan == Head(active_scans)
             scan_start == scan.start
             scan_end == scan_start + scan.duration
         IN  IF ~scan.available THEN "availability"
             ELSE LET r == TelescopeLoop(
                               ScanActiveTelescopes(tels, scan.telescope_indices),
                               scan_start, scan_end, telescope_scans)
                  IN  IF ~r.ok THEN "overlap"
                      ELSE TemporalLoop(tels, Tail(active_scans),
                                        r.telescope_scans)

\* Observation.validate
validate(obs) ==
    IF obs.observation_code = ""
    THEN ValidateResult(FALSE, FALSE, "code")
    ELSE IF obs.observation_type \notin {"VLBI", "SINGLE_DISH"}
    THEN ValidateResult(FALSE, FALSE, "type")
    ELSE IF obs.sefd = None
    THEN ValidateResult(TRUE, FALSE, "AttributeError")
    ELSE IF ActiveOf(obs.sources) = <<>>
    THEN ValidateResult(FALSE, FALSE, "no active sources")
    ELSE IF \E x \in Range(ActiveOf(obs.sources)) : ~x.valid
    THEN ValidateResult(FALSE, FALSE, "source")
    ELSE IF ActiveOf(obs.telescopes) = <<>>
    THEN ValidateResult(FALSE, FALSE, "no active telescopes")
    ELSE IF \E x \in Range(ActiveOf(obs.telescopes)) : ~x.valid
    THEN ValidateResult(FALSE, FALSE, "telescope")
    ELSE IF get_active_frequencies(obs.frequencies) = <<>>
    THEN ValidateResult(FALSE, FALSE, "no active frequencies")
    ELSE IF \E x \in Range(get_active_frequencies(obs.frequencies)) :
               ~IF_validate(x)
    THEN ValidateResult(FALSE, FALSE, "frequency")
    ELSE IF ActiveOf(obs.scans) = <<>>
    THEN ValidateResult(FALSE, FALSE, "no active scans")
    ELSE IF \E x \in Range(ActiveOf(obs.scans)) : ~x.valid
    THEN ValidateResult(FALSE, FALSE, "scan")
    ELSE LET reason == TemporalLoop(obs.telescopes,
                                    SortedByStart(ActiveOf(obs.scans)), {})
         IN  ValidateResult(FALSE, reason = "", reason)

\* Mutant: the scans are sorted in place rather than copied by sorted().
call_validate_sorts_in_place ==
    LET r == validate(ThisObservation)
    IN  /\ RecordReturning(Call("validate", "", 0, FALSE, r.raised), r)
        /\ attrs' = attrs
        /\ held' = held
        /\ scans' = SortedByStart(scans)
        /\ UNCHANGED <<sources, telescopes, frequencies, calculated_data>>

\* A call of validate(): what it gives is what the call returns.
call_validate ==
    LET r == validate(ThisObservation)
    IN  /\ RecordReturning(Call("validate", "", 0, FALSE, r.raised), r)
        /\ attrs' = attrs
        /\ held' = held
        /\ UNCHANGED <<sources, telescopes, frequencies, scans, calculated_data>>

----------------------------------------------------------------------------
\* Observation: serialization

\* Sources.to_dict, Telescopes.to_dict, Scans.to_dict and their from_dict:
\* the members under the key "data", and back.
Collection_to_dict(data) == [data |-> data]
Collection_from_dict(d) == d.data

\* Observation.to_dict; the calculated data hold plain values, which
\* convert_quantity gives back as they are.
Observation_to_dict(obs) ==
    [observation_code |-> obs.observation_code,
     observation_type |-> obs.observation_type,
     sources |-> Collection_to_dict(obs.sources),
     telescopes |-> Collection_to_dict(obs.telescopes),
     frequencies |-> Frequencies_to_dict(obs.frequencies),
     scans |-> Collection_to_dict(obs.scans),
     isactive |-> obs.isactive,
     calculated_data |-> obs.calculated_data]

\* Observation.from_dict: the constructor on the entries, which does not
\* set _sefd, then the calculated data.
Observation_from_dict(data) ==
    [observation_code |-> data.observation_code,
     observation_type |-> data.observation_type,
     isactive |-> data.isactive, sefd |-> None,
     sources |-> Collection_from_dict(data.sources),
     telescopes |-> Collection_from_dict(data.telescopes),
     frequencies |-> Frequencies_from_dict(data.frequencies),
     scans |-> Collection_from_dict(data.scans),
     calculated_data |-> data.calculated_data]

observation_to_dict ==
    /\ RecordReturning(Call("observation_to_dict", "", 0, FALSE, FALSE),
                       Observation_to_dict(ThisObservation))
    /\ attrs' = attrs
    /\ held' = held
    /\ UNCHANGED <<sources, telescopes, frequencies, scans, calculated_data>>

\* Observation.from_dict on the dictionary the last call returned.
observation_from_dict ==
    /\ last.op = "observation_to_dict"
    /\ RecordReturning(Call("observation_from_dict", "", 0, FALSE, FALSE),
                       Observation_from_dict(ret))
    /\ attrs' = attrs
    /\ held' = held
    /\ UNCHANGED <<sources, telescopes, frequencies, scans, calculated_data>>

----------------------------------------------------------------------------

\* Structural changes, with the store of calculated data being filled.
NextStruct ==
    \/ \E index \in Positions : remove_source(index)
    \/ \E index \in Positions, id \in NewIds :
          insert_source(Entity(id, TRUE), index)
    \/ \E index \in Positions : remove_telescope(index)
    \/ \E index \in Positions, id \in NewIds :
          insert_telescope(Entity(id, TRUE), index)
    \/ \E index \in Positions : remove_frequency(index)
    \/ \E index \in Positions, id \in NewIds :
          insert_frequency(IF_(id, 1, TRUE), index)
    \/ \E key \in KeyArguments : set_calculated_data(key, 1)

\* The arguments handed to a setter: the collections of its class, and a
\* plain list, which is of the wrong type.
Arguments(cls, collections) ==
    {Obj(cls, c) : c \in collections} \cup {Obj("list", <<>>)}

\* The collections handed to set_observation: none given; the four given;
\* a list in the place of the Sources, of the Scans.
CollectionArguments ==
    {<<NoneArg, NoneArg, NoneArg, NoneArg>>,
     <<Obj("Sources", InitCollection), Obj("Telescopes", InitCollection), Obj("Frequencies", InitFrequencies), Obj("Scans", <<ScanA>>)>>,
     <<Obj("Sources", InitCollection), NoneArg, NoneArg, Obj("Scans", <<>>)>>,
     <<Obj("list", <<>>), NoneArg, NoneArg, NoneArg>>,
     <<Obj("Sources", InitCollection), Obj("Telescopes", InitCollection), Obj("Frequencies", InitFrequencies), Obj("list", <<>>)>>}

\* The codes handed to the calls: a code, the empty string, and a value
\* that is not a str.
CodeArguments == {Obj("str", "OBS1"), Obj("str", ""), Obj("bytes", "OBS1")}

\* Bulk replacement, with the store of calculated data being filled.
NextBulk ==
    \/ \E new \in Arguments("Sources", NewCollections) : set_sources(new)
    \/ \E new \in Arguments("Telescopes", NewCollections) : set_telescopes(new)
    \/ \E new \in Arguments("Frequencies", NewFrequencies) : set_frequencies(new)
    \/ \E new \in Arguments("Scans", NewScans) : set_scans(new)
    \/ \E args \in CollectionArguments :
          set_observation(Obj("str", "OBS1"), args[1], args[2], args[3],
                          args[4], "SINGLE_DISH", TRUE)
    \/ \E code \in CodeArguments : set_observation_code(code)
    \/ \E key \in KeyArguments : set_calculated_data(key, 1)
    \/ \E key \in KeyArguments : call_get_calculated_data(key)

\* Activation toggles and the activation sync.
NextSync ==
    \/ \E t \in EntityTypes, pos \in 0 .. MaxLen - 1, flag \in BOOLEAN :
          set_entity_active(t, pos, flag)
    \/ \E t \in EntityTypes, index \in Positions, is_active \in BOOLEAN :
          sync(t, index, is_active)
    \/ \E flag \in BOOLEAN : observation_set_active(flag)

\* The IFs handed to add_frequency: a frequency of the collection or a
\* new one, active or not.
NewIFs == {IF_(f, 2, a) : f \in NewIds \cup {2}, a \in BOOLEAN}

\* The IFs whose setters are called, and the values handed to them:
\* frequency, bandwidth and flag.  The frequency 2 is that of another IF of
\* a collection; a value below zero is refused.
IFPositions == {0, 1}
IFValues == {<<2, 3, FALSE>>, <<MaxLen, 0, TRUE>>, <<0 - 1, 1, TRUE>>, <<1, 0 - 1, TRUE>>}

\* Wavelengths in units of 10^-4 cm: those of 1 MHz and of 2 MHz, and zero,
\* which check_positive refuses.
Wavelengths == {C_MHZ_CM, C_MHZ_CM \div 2, 0}

\* The Frequencies collection on its own.
NextFreq ==
    \/ \E if_obj \in NewIFs : add_frequency(if_obj)
    \/ \E index \in Positions, id \in NewIds :
          insert_frequency(IF_(id, 1, TRUE), index)
    \/ \E index \in Positions : remove_frequency(index)
    \/ \E index \in Positions : frequencies_remove_frequency(index)
    \/ frequencies_clear
    \/ \E pos \in IFPositions, values \in IFValues :
          IF_set_if(pos, values[1], values[2], values[3])
    \/ \E pos \in IFPositions, values \in IFValues :
          IF_set_frequency(pos, values[1], values[3])
    \/ \E pos \in IFPositions, values \in IFValues :
          IF_set_bandwidth(pos, values[2])
    \/ \E wavelength_cm \in Wavelengths : IF_set_frequency_wavelength(0, wavelength_cm)
    \/ \E pos \in IFPositions, flag \in BOOLEAN :
          set_entity_active("frequencies", pos, flag)
    \/ activate_all
    \/ deactivate_all
    \/ call_get_active_frequencies
    \/ call_get_inactive_frequencies
    \/ frequencies_to_dict
    \/ frequencies_from_dict

\* Validation and serialization of the whole observation.
NextObs ==
    \/ \E sefd \in {0, 2} : set_sefd(sefd)
    \/ \E key \in KeyArguments : set_calculated_data(key, 1)
    \/ call_validate
    \/ observation_to_dict
    \/ observation_from_dict

\* The entity types handed to the two private walks: the three of
\* entity_map and one that is none of them.
AnyEntityTypes == EntityTypes \cup {"scans"}

\* The reindexing walk and the activation sync called on their own.
NextPriv ==
    \/ \E t \in AnyEntityTypes, index \in {0, 1}, is_active \in BOOLEAN :
          sync(t, index, is_active)
    \/ \E t \in AnyEntityTypes, removed_index \in {None, Some(1)},
          inserted_index \in {None, Some(0)} :
          reindex(t, removed_index, inserted_index)

----------------------------------------------------------------------------
\* CatalogManager: the loading of the catalogs
\*
\* A file is the sequence of its lines, and a line, once stripped and split
\* at white space, the sequence of its fields; a blank line has no field.

\* The fields that re.match accepts as a sexagesimal angle, with the groups
\* of the match: two digits, ':', two digits, ':', two digits and a
\* fraction, after a sign for a declination only.
SexagesimalTokens ==
    {[text |-> "01:02:45.0", sign |-> "", d |-> 1, m |-> 2, s |-> 45],
     [text |-> "25:00:00.0", sign |-> "", d |-> 25, m |-> 0, s |-> 0],
     [text |-> "+58:24:11.0", sign |-> "+", d |-> 58, m |-> 24, s |-> 11],
     [text |-> "-05:23:28.0", sign |-> "-", d |-> 5, m |-> 23, s |-> 28]}

\* The fields that float() accepts, with their values.
FloatTokens ==
    {[text |-> "1", value |-> 1], [text |-> "25.0", value |-> 25],
     [text |-> "0.0", value |-> 0], [text |-> "-3.0", value |-> 0 - 3]}

\* re.match(r'(\d{2}):(\d{2}):(\d{2}\.\d+)', ra_str): the matches.
ra_match(ra_str) == {t \in SexagesimalTokens : t.text = ra_str /\ t.sign = ""}

\* re.match(r'([-+])?(\d{2}):(\d{2}):(\d{2}\.\d+)', dec_str): the matches.
dec_match(dec_str) == {t \in SexagesimalTokens : t.text = dec_str}

\* float(text) raises ValueError on a text that is not a number.
FloatRaises(text) == \A t \in FloatTokens : t.text # text
Float(text) == (CHOOSE t \in FloatTokens : t.text = text).value

\* Source(...) raises ValueError on hours outside [0, 24) or degrees
\* outside [-90, 90].
SourceRaises(ra_h, de_d) == ra_h \notin 0 .. 23 \/ de_d \notin (0 - 90) .. 90

\* Telescope(...) raises ValueError on a diameter that is not positive.
TelescopeRaises(diameter) == diameter <= 0

\* A name of the catalog, None for the placeholder.
NameOrNone(part) == IF part # "ALT_NAME" THEN Some(part) ELSE None

\* What one line does to the list and to failed_count.
LineSkipped == [entries |-> <<>>, failed |-> 0]
LineFailed == [entries |-> <<>>, failed |-> 1]
LineEntry(entry) == [entries |-> <<entry>>, failed |-> 0]

IsComment(parts) == parts[1] \in {"#", "#B1950", "#number"}

\* Mutant: a line with too few fields is passed over and not counted.
ParseSourceLineShortUncounted(parts) ==
    IF parts = <<>> \/ IsComment(parts) THEN LineSkipped
    ELSE IF Len(parts) < 5 THEN LineSkipped
    ELSE LET ra == ra_match(parts[Len(parts) - 1])
             dec == dec_match(parts[Len(parts)])
         IN  IF ra = {} \/ dec = {} THEN LineFailed
             ELSE LET r == CHOOSE t \in ra : TRUE
                      d == CHOOSE t \in dec : TRUE
                      de_d == IF d.sign # "-" THEN d.d ELSE 0 - d.d
                  IN  IF SourceRaises(r.d, de_d) THEN LineFailed
                      ELSE LineEntry([name |-> parts[1],
                                      ra_h |-> r.d, ra_m |-> r.m,
                                      ra_s |-> r.s, de_d |-> de_d,
                                      de_m |-> d.m, de_s |-> d.s,
                                      name_J2000 |-> NameOrNone(parts[2]),
                                      alt_name |-> NameOrNone(parts[3])])

\* The body of the loop of load_source_catalog on one line: a blank line or
\* a comment is passed over; fewer than five fields, a right ascension or a
\* declination that does not match, or a ValueError of Source(...) count
\* the line as failed; otherwise one Source is appended.
ParseSourceLine(parts) ==
    IF parts = <<>> \/ IsComment(parts) THEN LineSkipped
    ELSE IF Len(parts) < 5 THEN LineFailed
    ELSE LET ra == ra_match(parts[Len(parts) - 1])
             dec == dec_match(parts[Len(parts)])
         IN  IF ra = {} \/ dec = {} THEN LineFailed
             ELSE LET r == CHOOSE t \in ra : TRUE
                      d == CHOOSE t \in dec : TRUE
                      de_d == IF d.sign # "-" THEN d.d ELSE 0 - d.d
                  IN  IF SourceRaises(r.d, de_d) THEN LineFailed
                      ELSE LineEntry([name |-> parts[1],
                                      ra_h |-> r.d, ra_m |-> r.m,
                                      ra_s |-> r.s, de_d |-> de_d,
                                      de_m |-> d.m, de_s |-> d.s,
                                      name_J2000 |-> NameOrNone(parts[2]),
                                      alt_name |-> NameOrNone(parts[3])])

\* The body of the loop of load_telescope_catalog on one line: fewer than
\* six fields count the line as failed before the try; inside it, a
\* coordinate that is not a number (ValueError), a missing seventh field
\* (IndexError of parts[6]), a diameter that is not a number, or a
\* ValueError of Telescope(...) do; otherwise one Telescope is appended.
ParseTelescopeLine(parts) ==
    IF parts = <<>> \/ IsComment(parts) THEN LineSkipped
    ELSE IF Len(parts) < 6 THEN LineFailed
    ELSE IF \E k \in 4 .. 6 : FloatRaises(parts[k]) THEN LineFailed
    ELSE IF Len(parts) < 7 THEN LineFailed
    ELSE IF FloatRaises(parts[7]) THEN LineFailed
    ELSE IF TelescopeRaises(Float(parts[7])) THEN LineFailed
    ELSE LineEntry([code |-> parts[2], name |-> parts[3],
                    x |-> Float(parts[4]), y |-> Float(parts[5]),
                    z |-> Float(parts[6]), vx |-> 0, vy |-> 0, vz |-> 0,
                    diameter |-> Float(parts[7]), isactive |-> TRUE])

\* The loop over the lines of the file: the list and failed_count after it.
RECURSIVE ReadSourceLines(_)
ReadSourceLines(lines) ==
    IF lines = <<>> THEN LineSkipped
    ELSE LET done == ReadSourceLines(SubSeq(lines, 1, Len(lines) - 1))
             line == ParseSourceLine(lines[Len(lines)])
         IN  [entries |-> done.entries \o line.entries,
              failed |-> done.failed + line.failed]

RECURSIVE ReadTelescopeLines(_)
ReadTelescopeLines(lines) ==
    IF lines = <<>> THEN LineSkipped
    ELSE LET done == ReadTelescopeLines(SubSeq(lines, 1, Len(lines) - 1))
             line == ParseTelescopeLine(lines[Len(lines)])
         IN  [entries |-> done.entries \o line.entries,
              failed |-> done.failed + line.failed]

\* A file that exists, and a path at which there is none.
File(lines) == [exists |-> TRUE, lines |-> lines]
MissingFile == [exists |-> FALSE, lines |-> <<>>]

\* What a load reports: the file it was given and the count it logged.
Loaded(file, failed_count) == [file |-> file, failed_count |-> failed_count]

\* CatalogManager.load_source_catalog: open() raises FileNotFoundError,
\* which is raised again, before source_catalog is assigned; otherwise
\* source_catalog becomes Sources(sources) after the loop.
load_source_catalog(file) ==
    LET raised == ~file.exists
        read == ReadSourceLines(file.lines)
    IN  /\ RecordCall(Call("load_source_catalog", "sources", 0, FALSE, raised),
                      Loaded(file, IF raised THEN 0 ELSE read.failed))
        /\ catalogs' = (IF raised THEN catalogs
                        ELSE [catalogs EXCEPT !.source_catalog = read.entries])
        /\ UNCHANGED <<sources, telescopes, frequencies, scans,
                       calculated_data, attrs, held, manipulator>>

\* CatalogManager.load_telescope_catalog: the same for telescope_catalog.
load_telescope_catalog(file) ==
    LET raised == ~file.exists
        read == ReadTelescopeLines(file.lines)
    IN  /\ RecordCall(Call("load_telescope_catalog", "telescopes", 0, FALSE,
                           raised),
                      Loaded(file, IF raised THEN 0 ELSE read.failed))
        /\ catalogs' = (IF raised THEN catalogs
                        ELSE [catalogs EXCEPT !.telescope_catalog = read.entries])
        /\ UNCHANGED <<sources, telescopes, frequencies, scans,
                       calculated_data, attrs, held, manipulator>>

\* CatalogManager.clear_catalogs: both catalogs are emptied.
clear_catalogs ==
    /\ RecordCall(Call("clear_catalogs", "", 0, FALSE, FALSE), None)
    /\ catalogs' = [source_catalog |-> <<>>, telescope_catalog |-> <<>>]
    /\ UNCHANGED <<sources, telescopes, frequencies, scans,
                   calculated_data, attrs, held, manipulator>>

\* Lines of a source catalog: blank, comment, two well-formed lines (the
\* second with a sixth field before the angles), too few fields, a right
\* ascension without fraction, a declination in another notation, a
\* signed angle as right ascension, and hours that Source rejects.
SrcBlank == <<>>
SrcComment == <<"#B1950", "J2000", "ALT", "RA", "DEC">>
SrcGood1 == <<"0059+581", "J0102+5824", "ALT_NAME", "01:02:45.0", "+58:24:11.0">>
SrcGood2 == <<"0528+134", "ALT_NAME", "OG147", "x", "01:02:45.0", "-05:23:28.0">>
SrcGood3 == <<"3C84", "J0319+4130", "NGC1275", "01:02:45.0", "01:02:45.0">>
SrcShort == <<"3C273", "01:02:45.0", "+58:24:11.0">>
SrcBadRa == <<"3C279", "J1256-0547", "ALT_NAME", "01:02:45", "-05:23:28.0">>
SrcBadDec == <<"3C345", "J1642+3948", "ALT_NAME", "01:02:45.0", "39d48m">>
SrcSignedRa == <<"3C454", "J2253+1608", "ALT_NAME", "+58:24:11.0", "+58:24:11.0">>
SrcBadHours == <<"OJ287", "J0854+2006", "ALT_NAME", "25:00:00.0", "+58:24:11.0">>

SourceLines == {SrcBlank, SrcComment, SrcGood1, SrcGood2, SrcGood3, SrcShort, SrcBadRa, SrcBadDec, SrcSignedRa, SrcBadHours}

\* Lines of a telescope catalog: blank, comment, two well-formed lines (the
\* second with an eighth field), five fields, the six fields of the
\* documented format (no diameter), a coordinate that is not a number, a
\* diameter that is not a number, and a diameter that Telescope rejects.
TelBlank == <<>>
TelComment == <<"#number", "code", "name", "x", "y", "z">>
TelGood1 == <<"1", "EF", "EFFELSBERG", "1", "25.0", "-3.0", "25.0">>
TelGood2 == <<"2", "WB", "WESTERBORK", "0.0", "1", "25.0", "1", "x">>
TelShort == <<"3", "ON", "ONSALA", "1", "25.0">>
TelNoDiameter == <<"4", "MC", "MEDICINA", "1", "25.0", "-3.0">>
TelBadX == <<"5", "NT", "NOTO", "x", "25.0", "-3.0", "25.0">>
TelBadDiameter == <<"6", "TR", "TORUN", "1", "25.0", "-3.0", "32m">>
TelNoSize == <<"7", "YS", "YEBES", "1", "25.0", "-3.0", "0.0">>

TelescopeLines == {TelBlank, TelComment, TelGood1, TelGood2, TelShort, TelNoDiameter, TelBadX, TelBadDiameter, TelNoSize}

\* The files of one line, and files in which malformed lines stand before,
\* between and after well-formed ones.
SourceFiles ==
    {File(<<>>)} \cup {File(<<line>>) : line \in SourceLines} \cup
    {File(<<SrcComment, SrcGood1, SrcBlank, SrcShort, SrcGood2>>),
     File(<<SrcBadRa, SrcGood2, SrcGood1>>),
     File(<<SrcGood3, SrcBadDec, SrcBadHours, SrcGood1>>),
     File(<<SrcShort, SrcSignedRa, SrcBadRa>>),
     File(<<SrcGood2, SrcGood3>>)}

TelescopeFiles ==
    {File(<<>>)} \cup {File(<<line>>) : line \in TelescopeLines} \cup
    {File(<<TelComment, TelGood1, TelBlank, TelShort, TelGood2>>),
     File(<<TelNoDiameter, TelGood2, TelGood1>>),
     File(<<TelGood1, TelBadX, TelNoSize, TelGood2>>),
     File(<<TelShort, TelBadDiameter, TelNoDiameter>>),
     File(<<TelGood2, TelGood1>>)}

NextCat ==
    \/ \E file \in SourceFiles \cup {MissingFile} : load_source_catalog(file)
    \/ \E file \in TelescopeFiles \cup {MissingFile} : load_telescope_catalog(file)
    \/ clear_catalogs

\* The class of the members of a collection.
EntityClass(entity_type) == IF entity_type = "sources" THEN "Source" ELSE "Telescope"

\* Configurator.add_source / add_telescope: check_type of the entity, then
\* add_source / add_telescope of the collection, which is not among the
\* sources at hand: the collection appends the entity, or raises and stays
\* as it is.  Neither the scans nor the calculated data are touched.
configurator_add_entity(entity_type, obj, accepted) ==
    LET raised == ~check_type(obj, EntityClass(entity_type)) \/ ~accepted
    IN  /\ entity_type \in {"sources", "telescopes"}
        /\ raised \/ Len(AllEntities(entity_type)) < MaxLen
        /\ Record(Call("add_entity", entity_type, 0, FALSE, raised))
        /\ sources' = (IF entity_type = "sources" /\ ~raised
                       THEN Append(sources, obj.data) ELSE sources)
        /\ telescopes' = (IF entity_type = "telescopes" /\ ~raised
                          THEN Append(telescopes, obj.data) ELSE telescopes)
        /\ held' = held
        /\ UNCHANGED <<frequencies, scans, calculated_data>>

\* Configurator.add_scan: check_type of the scan, then Scans.add_scan,
\* which appends the scan or raises and leaves the scans.
configurator_add_scan(obj, accepted) ==
    LET raised == ~check_type(obj, "Scan") \/ ~accepted
    IN  /\ raised \/ Len(scans) < MaxLen
        /\ Record(Call("add_scan", "scans", 0, FALSE, raised))
        /\ scans' = (IF raised THEN scans ELSE Append(scans, obj.data))
        /\ held' = (IF raised THEN held ELSE held \o HeldOf(<<obj.data>>))
        /\ UNCHANGED <<sources, telescopes, frequencies, calculated_data>>

\* Configurator.bulk_configure: the sources are added one by one, then the
\* telescopes; an add that raises ends the call with what was added before
\* it.  self.add_frequency(observation, freq, bw) and self.add_scan(
\* observation, start=..., ...) are calls no method of Configurator takes:
\* the first pair of frequencies, else the first pair of scans, raises
\* TypeError (IndexError when the source of the scan is looked up among no
\* active sources), and nothing is added of either.  The numbers of sources
\* and telescopes the collections accept are src_ok and tel_ok.
bulk_configure(srcs, tels, freqs, scs, off_source, src_ok, tel_ok) ==
    LET src_raised == src_ok < Len(srcs)
        tel_raised == tel_ok < Len(tels)
        raised == src_raised \/ tel_raised \/ freqs # <<>> \/ scs # <<>>
    IN  /\ src_ok \in 0 .. Len(srcs)
        /\ tel_ok \in 0 .. Len(tels)
        /\ Len(sources) + Len(srcs) <= MaxLen
        /\ Len(telescopes) + Len(tels) <= MaxLen
        /\ Record(Call("bulk_configure", "", 0, off_source, raised))
        /\ sources' = sources \o SubSeq(srcs, 1, src_ok)
        /\ telescopes' = (IF src_raised THEN telescopes
                          ELSE telescopes \o SubSeq(tels, 1, tel_ok))
        /\ held' = held
        /\ UNCHANGED <<frequencies, scans, calculated_data>>

\* Configurator.load_catalogs: each file that is given is loaded, the
\* sources first; a missing source file raises before the telescopes are
\* read.  A file not given is None, a file given is Some(file).
load_catalogs(source_file, telescope_file) ==
    LET src_raised == source_file # None /\ ~Val(source_file).exists
        tel_raised == telescope_file # None /\ ~Val(telescope_file).exists
        raised == src_raised \/ tel_raised
    IN  /\ RecordCall(Call("load_catalogs", "", 0, FALSE, raised), None)
        /\ catalogs' =
              [source_catalog |->
                  IF source_file = None \/ src_raised
                  THEN catalogs.source_catalog
                  ELSE ReadSourceLines(Val(source_file).lines).entries,
               telescope_catalog |->
                  IF telescope_file = None \/ raised
                  THEN catalogs.telescope_catalog
                  ELSE ReadTelescopeLines(Val(telescope_file).lines).entries]
        /\ UNCHANGED <<sources, telescopes, frequencies, scans,
                       calculated_data, attrs, held, manipulator>>

\* The arguments of bulk_configure, with the numbers of sources and of
\* telescopes the collections accept: nothing to add; a source and a
\* telescope; the same with a frequency pair; the same with a scan pair; a
\* source the collection refuses; a telescope the collection refuses.
NewEntities == <<Entity(MaxLen, TRUE)>>
NewPairs == <<<<1, 10>>>>
BulkArguments ==
    {<<<<>>, <<>>, <<>>, <<>>, FALSE, 0, 0>>,
     <<NewEntities, NewEntities, <<>>, <<>>, FALSE, 1, 1>>,
     <<NewEntities, NewEntities, NewPairs, <<>>, FALSE, 1, 1>>,
     <<NewEntities, <<>>, <<>>, NewPairs, TRUE, 1, 0>>,
     <<NewEntities, NewEntities, <<>>, <<>>, FALSE, 0, 1>>,
     <<NewEntities, NewEntities, <<>>, <<>>, FALSE, 1, 0>>}

\* Configurator: remove_source, remove_telescope, remove_frequency,
\* insert_* and add_frequency pass the call on to the observation or to
\* the collection.
NextConf ==
    \/ \E index \in Positions : configurator_remove_scan(index)
    \/ \E index \in Positions : remove_source(index)
    \/ \E index \in Positions : remove_telescope(index)
    \/ \E index \in Positions : remove_frequency(index)
    \/ \E t \in {"sources", "telescopes"}, accepted \in BOOLEAN :
          configurator_add_entity(t, Obj(EntityClass(t), Entity(MaxLen, TRUE)), accepted)
    \/ configurator_add_entity("sources", NoneArg, TRUE)
    \/ \E accepted \in BOOLEAN : configurator_add_scan(Obj("Scan", ScanC), accepted)
    \/ configurator_add_scan(NoneArg, TRUE)
    \/ \E code \in CodeArguments : configurator_set_observation_code(code)
    \/ \E a \in BulkArguments :
          bulk_configure(a[1], a[2], a[3], a[4], a[5], a[6], a[7])
    \/ \E index \in EnginePositions : insert_source(Entity(MaxLen, TRUE), index)
    \/ \E index \in EnginePositions : insert_telescope(Entity(MaxLen, TRUE), index)
    \/ \E index \in EnginePositions : insert_frequency(IF_(MaxLen, 1, TRUE), index)
    \/ \E f \in {1, MaxLen} : add_frequency(IF_(f, 1, TRUE))
    \/ \E obs_type \in {"SINGLE_DISH", ""} : set_observation_type(obs_type)
    \/ \E sefd \in {0, 2} : set_sefd(sefd)
    \/ \E sf \in {None, Some(MissingFile), Some(File(<<SrcBadRa, SrcGood1>>))}, tf \in {None, Some(File(<<TelGood1>>))} :
          load_catalogs(sf, tf)

----------------------------------------------------------------------------
\* DefaultManipulator: the project and execute()

\* An observation of the project: the collections and the scans of a valid
\* observation, with the code and the SEFD given.
ProjectObservation(code, sefd) ==
    [observation_code |-> code, observation_type |-> "VLBI",
     isactive |-> TRUE, sefd |-> sefd,
     sources |-> InitCollection, telescopes |-> InitCollection,
     frequencies |-> InitFrequencies, scans |-> <<Scan1, Scan2>>,
     calculated_data |-> EmptyData]

\* Whether an item of the project is an Observation: Project.add_observation
\* appends whatever it is handed.
IsObservation(item) == "observation_code" \in DOMAIN item

\* The item a project holds for an object handed in: the observation, or
\* the object itself, known by its class, when it is no Observation.
ItemOf(obj) == IF check_type(obj, "Observation") THEN obj.data ELSE [cls |-> obj.cls]

\* The code a call is recorded with: that of the observation, and the
\* empty string for an item that is no Observation.
ItemCode(item) == IF IsObservation(item) THEN item.observation_code ELSE ""

\* A call of a collaborator on an item of the project.
CollaboratorCall(method, obs) == [method |-> method, code |-> ItemCode(obs)]

\* What execute() has done: the calls of the collaborators in the order
\* they were made, and whether an exception of one of them ended it.
Executed(calls, raised) == [calls |-> calls, raised |-> raised]

\* DefaultConfigurator.configure_observation: observation.validate(), whose
\* value is only logged and whose exception is not caught.
configure_observation_raises(obs) == validate(obs).raised

\* Lines 148-154, the body of the loop for one item of the project: the
\* configurator, the calculator and the vizualizator, each if it is set;
\* an exception of one of them ends the loop.  configure_observation
\* raises TypeError (check_type) for an item that is no Observation, and
\* whatever validate() raises for an Observation.  The calculator and the
\* vizualizator are not in the sources: refusing holds those of their
\* methods that raise for an item that is no Observation.
ExecuteOne(m, obs, refusing) ==
    LET configure == IF m.configurator
                     THEN <<CollaboratorCall("configure_observation", obs)>>
                     ELSE <<>>
        calculate == IF m.calculator
                     THEN <<CollaboratorCall("calculate_all", obs)>> ELSE <<>>
        visualize == IF m.vizualizator
                     THEN <<CollaboratorCall("visualize_observation", obs)>>
                     ELSE <<>>
    IN  IF IsObservation(obs)
        THEN IF m.configurator /\ configure_observation_raises(obs)
             THEN Executed(configure, TRUE)
             ELSE Executed(configure \o calculate \o visualize, FALSE)
        ELSE IF m.configurator THEN Executed(configure, TRUE)
        ELSE IF m.calculator /\ "calculate_all" \in refusing
        THEN Executed(calculate, TRUE)
        ELSE IF m.vizualizator /\ "visualize_observation" \in refusing
        THEN Executed(calculate \o visualize, TRUE)
        ELSE Executed(calculate \o visualize, FALSE)

\* Lines 144-154: nothing for a project with no observation; otherwise the
\* loop over the items of the project.
RECURSIVE ExecuteLoop(_, _, _)
ExecuteLoop(m, observations, refusing) ==
    IF observations = <<>> THEN Executed(<<>>, FALSE)
    ELSE LET head == ExecuteOne(m, Head(observations), refusing)
         IN  IF head.raised THEN head
             ELSE LET tail == ExecuteLoop(m, Tail(observations), refusing)
                  IN  Executed(head.calls \o tail.calls, tail.raised)

\* A call on the manipulator: the observation and the catalogs are left.
RecordManipulator(call, value) ==
    /\ RecordCall(call, value)
    /\ catalogs' = catalogs
    /\ held' = held
    /\ UNCHANGED <<sources, telescopes, frequencies, scans, calculated_data, attrs>>

\* DefaultManipulator.execute
execute(refusing) ==
    LET done == ExecuteLoop(manipulator, manipulator.observations, refusing)
    IN  /\ RecordManipulator(Call("execute", "", 0, FALSE, done.raised), done)
        /\ manipulator' = manipulator

\* The code a call is recorded with: that of the observation handed in,
\* and the empty string for an object that is no Observation.
CodeOf(obj) == ItemCode(ItemOf(obj))

\* Project.add_observation: the append, with no check of the class, and
\* then the log line, whose get_observation_code() raises AttributeError on
\* an object that is no Observation: the call raises and the project holds
\* the object.
project_add_observation(obj) ==
    LET raised == ~check_type(obj, "Observation")
    IN  /\ Len(manipulator.observations) < MaxLen
        /\ RecordManipulator(Call("project_add_observation", CodeOf(obj), 0, FALSE, raised), None)
        /\ manipulator' = [manipulator EXCEPT !.observations = Append(@, ItemOf(obj))]

\* Manipulator.add_observation: check_type, then Project.add_observation
\* appends.
add_observation(obj) ==
    LET raised == ~check_type(obj, "Observation")
    IN  /\ raised \/ Len(manipulator.observations) < MaxLen
        /\ RecordManipulator(Call("add_observation", CodeOf(obj), 0, FALSE, raised), None)
        /\ manipulator' = (IF raised THEN manipulator
                           ELSE [manipulator EXCEPT !.observations = Append(@, obj.data)])

\* Manipulator.insert_observation: check_type, then
\* Project.insert_observation, which raises IndexError unless
\* 0 <= index <= len and inserts before the position otherwise.
insert_observation(obj, index) ==
    LET raised == \/ ~check_type(obj, "Observation")
                  \/ ~(0 <= index /\ index <= Len(manipulator.observations))
    IN  /\ raised \/ Len(manipulator.observations) < MaxLen
        /\ RecordManipulator(Call("insert_observation", CodeOf(obj), index, FALSE, raised), None)
        /\ manipulator' = (IF raised THEN manipulator
                           ELSE [manipulator EXCEPT !.observations = ListInsert(@, index, obj.data)])

\* Project.__init__: the name and the observations.
Project(name, observations) == [name |-> name, observations |-> observations]

\* Manipulator.set_project: check_type, then the project is replaced; the
\* collaborators stay.  The call is recorded with the name of the project.
set_project(obj) ==
    LET raised == ~check_type(obj, "Project")
    IN  /\ RecordManipulator(Call("set_project", obj.data.name, 0, FALSE, raised), None)
        /\ manipulator' = (IF raised THEN manipulator
                           ELSE [manipulator EXCEPT !.name = obj.data.name,
                                                    !.observations = obj.data.observations])

\* Project.set_name: check_non_empty_string, then the name is assigned.
set_name(name) ==
    LET raised == name = ""
    IN  /\ RecordManipulator(Call("set_name", name, 0, FALSE, raised), None)
        /\ manipulator' = (IF raised THEN manipulator
                           ELSE [manipulator EXCEPT !.name = name])

\* Project.to_dict and Project.from_dict: the name, and the observations
\* each through Observation.to_dict and Observation.from_dict.
Project_to_dict(project) == [name |-> project.name, observations |-> [k \in DOMAIN project.observations |-> Observation_to_dict(project.observations[k])]]
Project_from_dict(data) == Project(data.name, [k \in DOMAIN data.observations |-> Observation_from_dict(data.observations[k])])

\* A path: whether a file is there, whether json.load decodes it, and
\* the dictionary it decodes to.
ProjectFile(exists, decodes, data) == [exists |-> exists, decodes |-> decodes, data |-> data]

\* Manipulator.save_project: the file is opened for writing, then json.dump
\* of Project.to_dict; the call is recorded with the file it leaves, and
\* the manipulator is left.  to_dict raises AttributeError on an item that
\* is no Observation, and the file is left empty, which json.load does not
\* decode.
save_project ==
    LET raised == \E k \in DOMAIN manipulator.observations : ~IsObservation(manipulator.observations[k])
    IN  /\ RecordManipulator(Call("save_project", "", 0, FALSE, raised),
                             IF raised THEN ProjectFile(TRUE, FALSE, Project_to_dict(Project("", <<>>)))
                             ELSE ProjectFile(TRUE, TRUE, Project_to_dict(Project(manipulator.name, manipulator.observations))))
        /\ manipulator' = manipulator

\* Manipulator.load_project: FileNotFoundError for a missing file and
\* ValueError for one json.load does not decode, both before the
\* assignment; otherwise the project becomes Project.from_dict(data).
load_project(file) ==
    LET raised == ~file.exists \/ ~file.decodes
    IN  /\ RecordManipulator(Call("load_project", "", 0, FALSE, raised), None)
        /\ manipulator' = (IF raised THEN manipulator
                           ELSE [manipulator EXCEPT !.name = Project_from_dict(file.data).name,
                                                    !.observations = Project_from_dict(file.data).observations])

\* Manipulator.remove_observation: Project.remove_observation pops, and
\* raises IndexError where list.pop does; after the pop the log line
\* raises AttributeError, which is not caught, when the item popped is no
\* Observation.
remove_observation(index) ==
    LET accepted == ListPopAccepts(manipulator.observations, index)
        raised == \/ ~accepted
                  \/ ~IsObservation(PyItem(manipulator.observations, index))
    IN  /\ RecordManipulator(Call("remove_observation", "", index, FALSE, raised), None)
        /\ manipulator' = (IF accepted
                           THEN [manipulator EXCEPT !.observations = ListPop(@, index)]
                           ELSE manipulator)

\* The class each setter of a collaborator checks its argument against.
CollaboratorClass(name) == CASE name = "configurator" -> "Configurator" [] name = "calculator" -> "Calculator" [] name = "vizualizator" -> "Vizualizator" [] name = "optimizator" -> "Optimizator"

\* Manipulator.set_configurator, set_calculator, set_vizualizator,
\* set_optimizator: check_type, then the collaborator named is set.
set_collaborator(name, obj) ==
    LET raised == ~check_type(obj, CollaboratorClass(name))
    IN  /\ RecordManipulator(Call("set_collaborator", name, 0, FALSE, raised), None)
        /\ manipulator' = (IF raised THEN manipulator
                           ELSE [manipulator EXCEPT ![name] = TRUE])

\* The observations of the projects: two whose SEFD was set with
\* Configurator.set_sefd and one as the constructor leaves it.
ObsA == ProjectObservation("A", Some(1))
ObsB == ProjectObservation("B", Some(1))
ObsC == ProjectObservation("C", None)

\* The manipulators at the start: each project with each choice of
\* collaborators.
InitManipulators ==
    {[name |-> "P", observations |-> o, configurator |-> c, calculator |-> k, vizualizator |-> v, optimizator |-> FALSE] : o \in {<<>>, <<ObsA>>, <<ObsB, ObsA>>, <<ObsA, ObsC, ObsB>>}, c \in BOOLEAN, k \in BOOLEAN, v \in BOOLEAN}

InitManip ==
    /\ sources = InitCollection
    /\ telescopes = InitCollection
    /\ frequencies = InitFrequencies
    /\ scans = <<>>
    /\ calculated_data = EmptyData
    /\ attrs = InitAttrs
    /\ manipulator \in InitManipulators
    /\ InitHistory

\* The projects handed to set_project and the files handed to
\* load_project: no file, a file that is not JSON, and files save_project
\* has written.
NewProjects == {Project("Q", <<>>), Project("R", <<ObsC, ObsA>>)}
ProjectFiles == {ProjectFile(FALSE, FALSE, Project_to_dict(Project("", <<>>))), ProjectFile(TRUE, FALSE, Project_to_dict(Project("", <<>>)))} \cup {ProjectFile(TRUE, TRUE, Project_to_dict(p)) : p \in NewProjects}

NextManip ==
    \/ \E refusing \in SUBSET {"calculate_all", "visualize_observation"} : execute(refusing)
    \/ \E obs \in {ObsA, ObsB, ObsC} : add_observation(Obj("Observation", obs))
    \/ add_observation(NoneArg)
    \/ project_add_observation(Obj("Observation", ObsC))
    \/ project_add_observation(NoneArg)
    \/ \E index \in {0 - 1, 0, 1, MaxLen} : insert_observation(Obj("Observation", ObsB), index)
    \/ insert_observation(NoneArg, 0)
    \/ \E index \in Positions : remove_observation(index)
    \/ \E name \in {"configurator", "calculator", "vizualizator", "optimizator"} : set_collaborator(name, Obj(CollaboratorClass(name), <<>>))
    \/ set_collaborator("configurator", NoneArg)
    \/ \E p \in NewProjects : set_project(Obj("Project", p))
    \/ set_project(Obj("dict", Project("", <<>>)))
    \/ \E name \in {"", "Q"} : set_name(name)
    \/ save_project
    \/ \E file \in ProjectFiles : load_project(file)

\* The types handed to the calls: the two of the program, the empty
\* string, and a type in another case.
TypeArguments == ObservationTypes \cup {"", "vlbi"}

\* The type of the observation: set_observation with and without
\* collections, and Configurator.set_observation_type.
NextType ==
    \/ \E args \in CollectionArguments, type \in TypeArguments, isactive \in BOOLEAN :
          set_observation(Obj("str", "OBS1"), args[1], args[2], args[3],
                          args[4], type, isactive)
    \/ \E obs_type \in TypeArguments : set_observation_type(obs_type)
    \/ \E key \in KeyArguments : set_calculated_data(key, 1)

\* Observation.__init__ with either type; any other type raises and
\* there is no observation.
InitType ==
    /\ sources = InitCollection
    /\ telescopes = InitCollection
    /\ frequencies = InitFrequencies
    /\ scans \in InitScans
    /\ calculated_data = EmptyData
    /\ attrs \in {[InitAttrs EXCEPT !.observation_type = t] : t \in ObservationTypes}
    /\ manipulator = NewManipulator
    /\ InitHistory

\* The calls that write the source index of a scan.
NextSrc ==
    \/ \E index \in Positions : remove_source(index)
    \/ \E index \in Positions, id \in NewIds :
          insert_source(Entity(id, TRUE), index)
    \/ \E index \in Positions, is_active \in BOOLEAN :
          sync("sources", index, is_active)

\* A scan that is off-source and keeps a source index.
ScanD == Scan(20, 10, Some(1), <<0>>, <<0>>, TRUE, TRUE)

\* Scans of which every one with is_off_source False has a source index.
InitSrc ==
    /\ sources = InitCollection
    /\ telescopes = InitCollection
    /\ frequencies = InitFrequencies
    /\ scans \in InitScans \cup {<<ScanD, ScanA>>}
    /\ calculated_data = EmptyData
    /\ attrs = InitAttrs
    /\ manipulator = NewManipulator
    /\ InitHistory


\* The structural changes and the activation sync together.
NextEngine ==
    \/ \E index \in EnginePositions : remove_source(index)
    \/ \E index \in EnginePositions : insert_source(Entity(MaxLen, TRUE), index)
    \/ \E index \in EnginePositions : remove_telescope(index)
    \/ \E index \in EnginePositions : insert_telescope(Entity(MaxLen, TRUE), index)
    \/ \E index \in EnginePositions : remove_frequency(index)
    \/ \E index \in EnginePositions : insert_frequency(IF_(MaxLen, 1, TRUE), index)
    \/ \E t \in EntityTypes, index \in EnginePositions, is_active \in BOOLEAN :
          sync(t, index, is_active)

Next ==
    \/ NextStruct \/ NextBulk \/ NextSync \/ NextFreq \/ NextObs
    \/ NextPriv \/ NextConf \/ NextCat \/ NextType
    \/ NextManip \/ NextSrc \/ NextEngine

Spec == Init /\ [][Next]_vars
SpecStruct == Init /\ [][NextStruct]_vars
SpecBulk == Init /\ [][NextBulk]_vars
SpecSync == Init /\ [][NextSync]_vars
SpecFreq == InitFreq /\ [][NextFreq]_vars
SpecObs == InitObs /\ [][NextObs]_vars
SpecPriv == Init /\ [][NextPriv]_vars
SpecConf == Init /\ [][NextConf]_vars
SpecCat == Init /\ [][NextCat]_vars
SpecType == InitType /\ [][NextType]_vars
SpecManip == InitManip /\ [][NextManip]_vars
SpecSrc == InitSrc /\ [][NextSrc]_vars
SpecEngine == Init /\ [][NextEngine]_vars

----------------------------------------------------------------------------
\* Vocabulary of the properties

InsertCalls == {"insert_source", "insert_telescope", "insert_frequency"}
RemoveCalls == {"remove_source", "remove_telescope", "remove_frequency"}
BulkCalls == {"set_sources", "set_telescopes", "set_frequencies",
              "set_scans", "set_observation"}

\* The last call returned normally and was one of the given ones.
Returned(calls) == last.op \in calls /\ ~last.raised

InRange(idx, coll) == 0 <= idx /\ idx < Len(coll)

SourceIndexLive(scan) ==
    scan.source_index = None \/ InRange(Val(scan.source_index), sources)

IndexListLive(scan, entity_type) ==
    \A idx \in Range(IndexList(scan, entity_type)) :
        InRange(idx, AllEntities(entity_type))

\* The index list a removal at position p must leave: p dropped, what is
\* above p moved down by one, the rest as it was, in order.
DropAndShift(old, p) ==
    LET kept == SelectSeq(old, LAMBDA x : x # p)
    IN  [j \in DOMAIN kept |-> IF kept[j] > p THEN kept[j] - 1 ELSE kept[j]]

----------------------------------------------------------------------------
\* C1: starting from scans that hold only in-range indices, after any
\* sequence of insert_*/remove_* calls every scan's source_index is None or
\* a position of sources, and every telescope and frequency index of every
\* scan is a position of its collection.
C1_NoOrphanReferences ==
    \A k \in DOMAIN scans :
        /\ SourceIndexLive(scans[k])
        /\ IndexListLive(scans[k], "telescopes")
        /\ IndexListLive(scans[k], "frequencies")

\* C2: remove_telescope(p) and remove_frequency(p) leave in every scan the
\* old index list with p dropped, every index above p decremented, every
\* index below p unchanged, in the same order and with nothing added.
C2_ReindexOnRemove ==
    Returned({"remove_telescope", "remove_frequency"}) =>
        /\ DOMAIN scans = DOMAIN pre.scans
        /\ \A k \in DOMAIN scans :
              IndexList(scans[k], last.entity_type) =
                  DropAndShift(IndexList(pre.scans[k], last.entity_type),
                               last.index)

\* A removal at p has met, in one scan, an index equal to p, one above p
\* and one below p.
C2_Witness ==
    /\ Returned({"remove_telescope", "remove_frequency"})
    /\ \E k \in DOMAIN pre.scans :
          LET old == Range(IndexList(pre.scans[k], last.entity_type))
          IN  /\ last.index \in old
              /\ \E idx \in old : idx > last.index
              /\ \E idx \in old : idx < last.index

\* C3: insert_source/insert_telescope/insert_frequency at position p adds
\* one to every scan index of that type that is >= p, leaves every index
\* < p unchanged, and neither drops nor adds an index; a source_index of
\* None stays None.
C3_ReindexOnInsert ==
    Returned(InsertCalls) =>
        /\ DOMAIN scans = DOMAIN pre.scans
        /\ \A k \in DOMAIN scans :
              LET p == last.index
                  old == pre.scans[k]
                  new == scans[k]
              IN  IF last.entity_type = "sources"
                  THEN /\ (old.source_index = None) = (new.source_index = None)
                       /\ old.source_index # None =>
                             Val(new.source_index) =
                                 IF Val(old.source_index) >= p
                                 THEN Val(old.source_index) + 1
                                 ELSE Val(old.source_index)
                  ELSE LET o == IndexList(old, last.entity_type)
                           n == IndexList(new, last.entity_type)
                       IN  /\ Len(n) = Len(o)
                           /\ \A j \in DOMAIN o :
                                 n[j] = IF o[j] >= p THEN o[j] + 1 ELSE o[j]

\* An insertion at p has met an index equal to p, one above and one below.
C3_Witness ==
    /\ Returned({"insert_telescope", "insert_frequency"})
    /\ \E k \in DOMAIN pre.scans :
          LET old == Range(IndexList(pre.scans[k], last.entity_type))
          IN  /\ last.index \in old
              /\ \E idx \in old : idx > last.index
              /\ \E idx \in old : idx < last.index

\* C4: remove_source(p) leaves every scan whose source_index was p with
\* source_index None and is_off_source True, every scan whose source_index
\* was above p with it decremented, and every other scan unchanged.
C4_RemoveSource ==
    Returned({"remove_source"}) =>
        /\ DOMAIN scans = DOMAIN pre.scans
        /\ \A k \in DOMAIN scans :
              LET p == last.index
                  old == pre.scans[k]
                  new == scans[k]
              IN  IF old.source_index = None THEN new = old
                  ELSE IF Val(old.source_index) = p
                  THEN new = [old EXCEPT !.source_index = None,
                                         !.is_off_source = TRUE]
                  ELSE IF Val(old.source_index) > p
                  THEN new = [old EXCEPT
                                 !.source_index = Some(Val(old.source_index) - 1)]
                  ELSE new = old

\* A removal of a source has cleared one on-source scan and shifted another.
C4_Witness ==
    /\ Returned({"remove_source"})
    /\ \E k \in DOMAIN pre.scans :
          /\ pre.scans[k].source_index = Some(last.index)
          /\ ~pre.scans[k].is_off_source
    /\ \E k \in DOMAIN pre.scans :
          /\ pre.scans[k].source_index # None
          /\ Val(pre.scans[k].source_index) > last.index

\* C5: after set_sources, set_telescopes, set_frequencies, set_scans or
\* set_observation, get_calculated_data returns None for every key.
C5_BulkSetClearsCalculatedData ==
    Returned(BulkCalls) =>
        \A key \in Keys : get_calculated_data(key) = None

\* A bulk replacement has been made on an observation that held data.
C5_Witness ==
    /\ Returned(BulkCalls)
    /\ DOMAIN pre.calculated_data # {}

\* C6: after a structural insert_*/remove_* call that returned, every key
\* stored before the call reads None.
C6_StructuralChangeClearsCalculatedData ==
    Returned(InsertCalls \cup RemoveCalls) =>
        \A key \in DOMAIN pre.calculated_data : get_calculated_data(key) = None

\* C7: a scan on source i (is_off_source False) is cleared and marked
\* off-source by the sync (sources, i, False), and the sync (sources, i,
\* True) that follows restores source_index i and is_off_source False.
C7_DeactivateThenReactivateSource ==
    \A k \in DOMAIN scans :
        (/\ last = Call("sync", "sources", last.index, TRUE, FALSE)
         /\ pre.last = Call("sync", "sources", last.index, FALSE, FALSE)
         /\ pre2.scans[k].source_index = Some(last.index)
         /\ ~pre2.scans[k].is_off_source)
        => /\ pre.scans[k].source_index = None
           /\ pre.scans[k].is_off_source
           /\ scans[k].source_index = Some(last.index)
           /\ ~scans[k].is_off_source

\* C8: the sync (telescopes or frequencies, i, False) takes i out of every
\* index list that holds it and changes nothing else: the other indices keep
\* their values and order, every other field of every scan and the three
\* collections are as before.
C8_DeactivationDropsOnlyThatIndex ==
    (/\ last.op = "sync"
     /\ last.entity_type \in {"telescopes", "frequencies"}
     /\ ~last.flag)
    => /\ ~last.raised
       /\ sources = pre.sources
       /\ telescopes = pre.telescopes
       /\ frequencies = pre.frequencies
       /\ DOMAIN scans = DOMAIN pre.scans
       /\ \A k \in DOMAIN scans :
             LET old == IndexList(pre.scans[k], last.entity_type)
                 new == SelectSeq(old, LAMBDA x : x # last.index)
             IN  scans[k] = SetIndexList(pre.scans[k], last.entity_type, new)

\* A deactivation of i has met a scan that held i below a larger index, and
\* a scan that did not hold i.
C8_Witness ==
    /\ last.op = "sync"
    /\ last.entity_type \in {"telescopes", "frequencies"}
    /\ ~last.flag
    /\ \E k \in DOMAIN pre.scans :
          LET old == Range(IndexList(pre.scans[k], last.entity_type))
          IN  last.index \in old /\ \E idx \in old : idx > last.index
    /\ \E k \in DOMAIN pre.scans :
          last.index \notin Range(IndexList(pre.scans[k], last.entity_type))

\* C9: the sync (telescopes or frequencies, i, True), i a position of the
\* collection, adds i to a scan's index list only if that scan referenced
\* position i before; a scan that never referenced i does not gain i.
C9_ReactivationOnlyRestores ==
    (/\ last.op = "sync"
     /\ last.entity_type \in {"telescopes", "frequencies"}
     /\ last.flag
     /\ InRange(last.index, AllEntities(last.entity_type)))
    => \A k \in DOMAIN scans :
          (/\ last.index \in Range(IndexList(scans[k], last.entity_type))
           /\ last.index \notin Range(IndexList(pre.scans[k], last.entity_type)))
          => last.index \in pre.held[k][last.entity_type]

\* C10: after set_sources/set_telescopes/set_frequencies has replaced a
\* collection, every scan index of that type is a position of the new
\* collection or has been cleared.
C10_BulkSetKeepsIndicesLive ==
    Returned({"set_sources", "set_telescopes", "set_frequencies"}) =>
        \A k \in DOMAIN scans :
            IF last.entity_type = "sources"
            THEN SourceIndexLive(scans[k])
            ELSE IndexListLive(scans[k], last.entity_type)

----------------------------------------------------------------------------
\* Vocabulary of the properties about Frequencies

HasFrequency(data, f) == \E k \in DOMAIN data : data[k]._frequency = f

\* The number of IFs among the first k whose flag is the given one.
CountUpTo(data, k, flag) ==
    Cardinality({j \in 1 .. k : data[j].isactive = flag})

\* The sequence holds exactly the IFs of data with the given flag, in the
\* order of data.
IsFilterOf(part, data, flag) ==
    /\ Len(part) = CountUpTo(data, Len(data), flag)
    /\ \A k \in DOMAIN data :
          data[k].isactive = flag =>
              /\ CountUpTo(data, k, flag) \in DOMAIN part
              /\ part[CountUpTo(data, k, flag)] = data[k]

\* C11: add_frequency with an IF whose frequency is already in the
\* collection raises and leaves the collection as it was; with a new
\* frequency it puts the IF at position len and leaves every IF that was
\* there at its position.
C11_AddFrequency ==
    last.op = "add_frequency" =>
        IF HasFrequency(pre.frequencies, last.index)
        THEN /\ last.raised
             /\ frequencies = pre.frequencies
        ELSE /\ ~last.raised
             /\ Len(frequencies) = Len(pre.frequencies) + 1
             /\ SubSeq(frequencies, 1, Len(pre.frequencies)) = pre.frequencies
             /\ frequencies[Len(frequencies)]._frequency = last.index
             /\ frequencies[Len(frequencies)].isactive = last.flag

\* An IF of a new frequency has been added to a collection that held IFs,
\* after an IF of a frequency of the collection had been rejected.
C11_Witness ==
    /\ Returned({"add_frequency"})
    /\ pre.frequencies # <<>>
    /\ pre.last.op = "add_frequency"
    /\ pre.last.raised

\* The calls of C12, with the construction.
C12Calls == {"init", "add_frequency", "insert_frequency", "remove_frequency"}

\* C12: starting from an empty Frequencies collection, after any sequence
\* of add_frequency, insert_frequency and remove_frequency calls no two IFs
\* of the collection have the same frequency.
C12_UniqueFrequencies ==
    {last.op, pre.last.op, pre2.last.op} \subseteq C12Calls =>
        \A j, k \in DOMAIN frequencies :
            j # k => frequencies[j]._frequency # frequencies[k]._frequency

\* C13: remove_frequency(position), called on the collection or through
\* the observation, raises IndexError and leaves the collection as it was
\* for every position outside [0, len); for a position inside it deletes
\* the IF of that position and moves the later ones down.
C13_RemoveFrequency ==
    last.op \in {"remove_frequency", "frequencies_remove_frequency"} =>
        IF InRange(last.index, pre.frequencies)
        THEN /\ ~last.raised
             /\ frequencies =
                    SubSeq(pre.frequencies, 1, last.index)
                    \o SubSeq(pre.frequencies, last.index + 2,
                              Len(pre.frequencies))
        ELSE /\ last.raised
             /\ frequencies = pre.frequencies

\* C14: a remove_* call that the collection rejects raises and leaves the
\* three collections and every scan as they were; one that returns has
\* taken one entity out of its collection and has reindexed every scan.
C14_RemoveAllOrNothing ==
    last.op \in RemoveCalls =>
        IF last.raised
        THEN /\ sources = pre.sources
             /\ telescopes = pre.telescopes
             /\ frequencies = pre.frequencies
             /\ scans = pre.scans
        ELSE /\ Len(AllEntities(last.entity_type)) + 1 =
                    Len(pre[last.entity_type])
             /\ DOMAIN scans = DOMAIN pre.scans
             /\ \A k \in DOMAIN scans :
                   LET p == last.index
                       old == pre.scans[k]
                       new == scans[k]
                   IN  IF last.entity_type # "sources"
                       THEN IndexList(new, last.entity_type) =
                                DropAndShift(IndexList(old, last.entity_type), p)
                       ELSE IF old.source_index = None THEN new = old
                       ELSE IF Val(old.source_index) = p
                       THEN new.source_index = None /\ new.is_off_source
                       ELSE new.source_index =
                                Some(IF Val(old.source_index) > p
                                     THEN Val(old.source_index) - 1
                                     ELSE Val(old.source_index))

\* A removal has been rejected after another one had returned and had
\* changed the scans.
C14_Witness ==
    /\ last.op \in RemoveCalls
    /\ last.raised
    /\ pre.last.op \in RemoveCalls
    /\ ~pre.last.raised
    /\ pre.scans # pre2.scans

\* C15: activate_all and deactivate_all raise on an empty collection; on a
\* collection that holds IFs they leave every IF active (inactive), the
\* number and the order of the IFs and their other attributes as before.
C15_ActivateAll ==
    last.op \in {"activate_all", "deactivate_all"} =>
        IF pre.frequencies = <<>>
        THEN /\ last.raised
             /\ frequencies = pre.frequencies
        ELSE /\ ~last.raised
             /\ Len(frequencies) = Len(pre.frequencies)
             /\ \A k \in DOMAIN frequencies :
                   frequencies[k] =
                       [pre.frequencies[k] EXCEPT !.isactive = last.flag]

\* activate_all has returned on a collection that held an active and an
\* inactive IF.
C15_Witness ==
    /\ Returned({"activate_all"})
    /\ \E k \in DOMAIN pre.frequencies : pre.frequencies[k].isactive
    /\ \E k \in DOMAIN pre.frequencies : ~pre.frequencies[k].isactive

\* C16: get_active_frequencies returns the active IFs and
\* get_inactive_frequencies the inactive ones, each in the order of the
\* collection, every IF is in exactly one of the two, and the collection
\* is as it was.
C16_ActiveInactivePartition ==
    /\ last.op = "get_active_frequencies" =>
          /\ frequencies = pre.frequencies
          /\ IsFilterOf(ret, frequencies, TRUE)
          /\ Len(ret) + Len(get_inactive_frequencies(frequencies))
                 = Len(frequencies)
    /\ last.op = "get_inactive_frequencies" =>
          /\ frequencies = pre.frequencies
          /\ IsFilterOf(ret, frequencies, FALSE)
          /\ Len(get_active_frequencies(frequencies)) + Len(ret)
                 = Len(frequencies)

\* get_inactive_frequencies has been called right after
\* get_active_frequencies on a collection in which an active IF comes
\* before two inactive ones.
C16_Witness ==
    /\ last.op = "get_inactive_frequencies"
    /\ pre.last.op = "get_active_frequencies"
    /\ Len(ret) >= 2
    /\ frequencies[1].isactive

\* C17: IF.from_dict(x.to_dict()) has the frequency, the bandwidth and the
\* flag of x, and Frequencies.from_dict(F.to_dict()) holds the IFs of F in
\* the order of F, the inactive ones included.
C17_FrequenciesRoundTrip ==
    /\ \A k \in DOMAIN frequencies :
          LET x == frequencies[k]
              y == IF_from_dict(IF_to_dict(x))
          IN  /\ y._frequency = x._frequency
              /\ y._bandwidth = x._bandwidth
              /\ y.isactive = x.isactive
    /\ last.op = "frequencies_from_dict" =>
          /\ Len(ret) = Len(frequencies)
          /\ \A k \in DOMAIN frequencies : ret[k] = frequencies[k]

\* A collection with an inactive IF and IFs of different bandwidths has
\* been written and read back.
C17_Witness ==
    /\ last.op = "frequencies_from_dict"
    /\ \E k \in DOMAIN frequencies : ~frequencies[k].isactive
    /\ \E j, k \in DOMAIN frequencies :
          frequencies[j]._bandwidth # frequencies[k]._bandwidth

----------------------------------------------------------------------------
\* Vocabulary of the properties about validate()

\* The orders in which the scans of the observation can have been added.
Reorderings(scs) ==
    {[k \in DOMAIN scs |-> scs[f[k]]] : f \in Permutations(DOMAIN scs)}

NoActive(data) == \A k \in DOMAIN data : ~data[k].isactive

ActiveInvalid(data) == \E k \in DOMAIN data : data[k].isactive /\ ~data[k].valid

\* The observation fails none of the conditions that come before the
\* search for overlaps.
OtherwiseValid(obs) ==
    /\ obs.observation_code # ""
    /\ obs.observation_type \in {"VLBI", "SINGLE_DISH"}
    /\ obs.sefd # None
    /\ ~NoActive(obs.sources) /\ ~ActiveInvalid(obs.sources)
    /\ ~NoActive(obs.telescopes) /\ ~ActiveInvalid(obs.telescopes)
    /\ ~NoActive(obs.frequencies)
    /\ ~NoActive(obs.scans) /\ ~ActiveInvalid(obs.scans)
    /\ \A k \in DOMAIN obs.scans :
          obs.scans[k].isactive => obs.scans[k].available

\* [start, start + duration) of a and of b overlap.
IntervalsOverlap(a, b) ==
    ~(a.start + a.duration <= b.start \/ a.start >= b.start + b.duration)

\* Two active scans reference one active telescope.
ShareActiveTelescope(obs, j, k) ==
    /\ j # k
    /\ obs.scans[j].isactive
    /\ obs.scans[k].isactive
    /\ \E t \in DOMAIN obs.telescopes :
          /\ obs.telescopes[t].isactive
          /\ t - 1 \in Range(obs.scans[j].telescope_indices)
          /\ t - 1 \in Range(obs.scans[k].telescope_indices)

\* Every inactive member with the opposite answer of its own validate()
\* and, for a scan, of its availability check.
FlipInactive(data) ==
    [k \in DOMAIN data |->
        IF data[k].isactive THEN data[k]
        ELSE [data[k] EXCEPT !.valid = ~data[k].valid]]

FlipInactiveScans(scs) ==
    [k \in DOMAIN scs |->
        IF scs[k].isactive THEN scs[k]
        ELSE [scs[k] EXCEPT !.valid = ~scs[k].valid,
                            !.available = ~scs[k].available]]

\* C18: Observation.from_dict(x.to_dict()) is x field for field: the code,
\* the type, the active flag, the four collections, the calculated data and
\* the SEFD that validate() reads.
C18_ObservationRoundTrip ==
    last.op = "observation_from_dict" =>
        /\ ret.observation_code = attrs.observation_code
        /\ ret.observation_type = attrs.observation_type
        /\ ret.isactive = attrs.isactive
        /\ ret.sources = sources
        /\ ret.telescopes = telescopes
        /\ ret.frequencies = frequencies
        /\ ret.scans = scans
        /\ ret.calculated_data = calculated_data
        /\ ret.sefd = attrs.sefd

\* C19: on an observation that is valid otherwise, validate() returns False
\* exactly when two active scans that reference one active telescope have
\* overlapping intervals, intervals that touch not being overlapping, and
\* it returns the same for every order of the scans.
C19_OverlapDetection ==
    (last.op = "validate" /\ OtherwiseValid(ThisObservation)) =>
        /\ ~ret.raised
        /\ ~ret.value <=>
               \E j, k \in DOMAIN scans :
                   /\ ShareActiveTelescope(ThisObservation, j, k)
                   /\ IntervalsOverlap(scans[j], scans[k])
        /\ \A scs \in Reorderings(scans) :
               validate([ThisObservation EXCEPT !.scans = scs]).value = ret.value

\* validate() has returned True on two active scans of one active
\* telescope whose intervals touch, the later one added first.
C19_Witness ==
    /\ last.op = "validate"
    /\ OtherwiseValid(ThisObservation)
    /\ ret.value
    /\ \E j, k \in DOMAIN scans :
          /\ j < k
          /\ ShareActiveTelescope(ThisObservation, j, k)
          /\ scans[k].start + scans[k].duration = scans[j].start

\* C20: validate() returns False whenever no source, no telescope, no
\* frequency or no scan is active or an active member fails its own
\* validate(), and what the inactive members answer changes nothing.
C20_ActiveMembers ==
    last.op = "validate" =>
        /\ (\/ NoActive(sources) \/ ActiveInvalid(sources)
            \/ NoActive(telescopes) \/ ActiveInvalid(telescopes)
            \/ NoActive(frequencies)
            \/ NoActive(scans) \/ ActiveInvalid(scans))
           => (~ret.raised /\ ~ret.value)
        /\ validate([ThisObservation EXCEPT
                        !.sources = FlipInactive(sources),
                        !.telescopes = FlipInactive(telescopes),
                        !.scans = FlipInactiveScans(scans)]) = ret

\* C21: validate() called on an observation built by the constructor or
\* by from_dict, in any state the public API reaches, returns True or False
\* and never raises.
C21_ValidateNeverRaises ==
    last.op = "validate" => (~last.raised /\ ret.value \in BOOLEAN)

\* C22: validate() is read-only: whatever it gives, the collections, the
\* active flags, the scans with their indices and is_off_source, the code,
\* the type and the calculated data are after the call what they were
\* before it.
C22_ValidateReadOnly ==
    last.op = "validate" =>
        /\ sources = pre.sources
        /\ telescopes = pre.telescopes
        /\ frequencies = pre.frequencies
        /\ scans = pre.scans
        /\ attrs = pre.attrs
        /\ calculated_data = pre.calculated_data

\* validate() has gone through the search for overlaps on scans that were
\* not added in the order of their starts, with calculated data stored.
C22_Witness ==
    /\ last.op = "validate"
    /\ ret.reason \in {"", "overlap"}
    /\ Len(scans) >= 2
    /\ scans[1].start > scans[2].start
    /\ DOMAIN calculated_data # {}

\* C23: the reindexing walk and the activation sync called with an entity
\* type other than "sources", "telescopes" and "frequencies" raise, and
\* every scan and every collection is as it was.
C23_InvalidEntityType ==
    (/\ last.op \in {"update_scan_indices", "sync"}
     /\ last.entity_type \notin EntityTypes)
    => /\ last.raised
       /\ scans = pre.scans
       /\ sources = pre.sources
       /\ telescopes = pre.telescopes
       /\ frequencies = pre.frequencies

\* The reindexing walk has been refused for an unknown entity type with a
\* removed index that scans hold in both of their index lists, after the
\* activation sync had been refused.
C23_Witness ==
    /\ last.op = "update_scan_indices"
    /\ last.entity_type \notin EntityTypes
    /\ ~last.flag
    /\ \E k \in DOMAIN scans :
          last.index \in Range(scans[k].telescope_indices)
    /\ \E k \in DOMAIN scans :
          last.index \in Range(scans[k].frequency_indices)
    /\ pre.last.op = "sync"
    /\ pre.last.entity_type \notin EntityTypes
    /\ pre.last.raised

\* C24: one structural change applies the shift rule once to every scan,
\* active or not: no scan is skipped, what is left of each index has moved
\* by one position at most, and nothing else of a scan has changed.
C24_EveryScanReindexedOnce ==
    Returned(InsertCalls \cup RemoveCalls) =>
        /\ DOMAIN scans = DOMAIN pre.scans
        /\ \A k \in DOMAIN scans :
              LET p == last.index
                  removal == last.op \in RemoveCalls
                  Moved(idx) == IF removal
                                THEN (IF idx > p THEN idx - 1 ELSE idx)
                                ELSE (IF idx >= p THEN idx + 1 ELSE idx)
                  old == pre.scans[k]
                  new == scans[k]
              IN  /\ new.isactive = old.isactive
                  /\ new.start = old.start
                  /\ new.duration = old.duration
                  /\ IF last.entity_type = "sources"
                     THEN /\ new.telescope_indices = old.telescope_indices
                          /\ new.frequency_indices = old.frequency_indices
                          /\ IF old.source_index = None
                                \/ (removal /\ Val(old.source_index) = p)
                             THEN new.source_index = None
                             ELSE new.source_index =
                                      Some(Moved(Val(old.source_index)))
                     ELSE LET o == IF removal
                                   THEN SelectSeq(IndexList(old, last.entity_type),
                                                  LAMBDA x : x # p)
                                   ELSE IndexList(old, last.entity_type)
                              n == IndexList(new, last.entity_type)
                          IN  /\ new.source_index = old.source_index
                              /\ new.is_off_source = old.is_off_source
                              /\ Len(n) = Len(o)
                              /\ \A j \in DOMAIN o : n[j] = Moved(o[j])

\* A structural change has moved an index of an inactive scan and an index
\* of an active scan.
C24_Witness ==
    /\ Returned(InsertCalls \cup RemoveCalls)
    /\ \E k \in DOMAIN pre.scans :
          ~pre.scans[k].isactive /\ scans[k] # pre.scans[k]
    /\ \E k \in DOMAIN pre.scans :
          pre.scans[k].isactive /\ scans[k] # pre.scans[k]

\* C25: the activation sync (sources, i, True) changes no scan whose
\* source_index is not i: a scan without a source, created off-source or
\* left so by a removal or a deactivation, keeps source_index None and
\* is_off_source True, and a scan on another source is as it was.
C25_SourceActivationLeavesOthers ==
    (/\ last.op = "sync"
     /\ last.entity_type = "sources"
     /\ last.flag)
    => /\ ~last.raised
       /\ DOMAIN scans = DOMAIN pre.scans
       /\ \A k \in DOMAIN scans :
             pre.scans[k].source_index # Some(last.index) =>
                 scans[k] = pre.scans[k]

\* A source has been activated while one scan was off-source without a
\* source and another scan was on another source.
C25_Witness ==
    /\ last.op = "sync"
    /\ last.entity_type = "sources"
    /\ last.flag
    /\ InRange(last.index, sources)
    /\ \E k \in DOMAIN pre.scans :
          pre.scans[k].source_index = None /\ pre.scans[k].is_off_source
    /\ \E k \in DOMAIN pre.scans :
          /\ pre.scans[k].source_index # None
          /\ pre.scans[k].source_index # Some(last.index)

\* C26: set_sources, set_telescopes, set_frequencies and set_scans called
\* with an argument of the wrong type raise and leave the observation as
\* it was: the collections and the scans are those installed before, and
\* the calculated data are kept.
C26_WrongTypeLeavesObservation ==
    (/\ last.op \in {"set_sources", "set_telescopes", "set_frequencies",
                     "set_scans"}
     /\ last.flag)
    => /\ last.raised
       /\ sources = pre.sources
       /\ telescopes = pre.telescopes
       /\ frequencies = pre.frequencies
       /\ scans = pre.scans
       /\ attrs = pre.attrs
       /\ calculated_data = pre.calculated_data

\* A setter has refused an argument of the wrong type on an observation
\* that held calculated data and scans.
C26_Witness ==
    /\ last.op \in {"set_sources", "set_telescopes", "set_frequencies",
                    "set_scans"}
    /\ last.flag
    /\ DOMAIN pre.calculated_data # {}
    /\ pre.scans # <<>>

\* C27: an IndexError of a public removal call reaches the caller:
\* Configurator.remove_scan with a position outside [0, number of scans),
\* like remove_source, remove_telescope and remove_frequency, raises when it
\* has removed nothing.
C27_IndexErrorsPropagate ==
    /\ last.op \in RemoveCalls =>
          (AllEntities(last.entity_type) = pre[last.entity_type]
              => last.raised)
    /\ last.op = "remove_scan" =>
          /\ ~InRange(last.index, pre.scans) => last.raised
          /\ scans = pre.scans => last.raised

LoadCalls == {"load_source_catalog", "load_telescope_catalog"}
IsDataLine(parts) == parts # <<>> /\ ~IsComment(parts)
IsWellFormedLine(parts) == parts \in {SrcGood1, SrcGood2, SrcGood3, TelGood1, TelGood2}
LoadedCatalog(cats) == IF last.op = "load_source_catalog" THEN cats.source_catalog ELSE cats.telescope_catalog
OtherCatalog(cats) == IF last.op = "load_source_catalog" THEN cats.telescope_catalog ELSE cats.source_catalog
EntryKey(entry) == IF last.op = "load_source_catalog" THEN entry.name ELSE entry.code
LineKey(parts) == IF last.op = "load_source_catalog" THEN parts[1] ELSE parts[2]

\* C28: a load of a catalog isolates the failures of single lines: of the
\* lines that are neither blank nor comment, the well-formed ones become
\* the entries of the catalog, one each and in the order of the file, and
\* every other one is counted once as failed, wherever it stands; the other
\* catalog is left alone; a missing file raises and leaves both catalogs as
\* they were.
C28_LoadIsolatesLineFailures ==
    last.op \in LoadCalls =>
        LET data == SelectSeq(ret.file.lines, IsDataLine)
            good == SelectSeq(data, IsWellFormedLine)
            catalog == LoadedCatalog(catalogs)
        IN  IF ~ret.file.exists
            THEN last.raised /\ catalogs = pre.catalogs
            ELSE /\ ~last.raised
                 /\ OtherCatalog(catalogs) = OtherCatalog(pre.catalogs)
                 /\ Len(catalog) + ret.failed_count = Len(data)
                 /\ Len(catalog) = Len(good)
                 /\ \A k \in DOMAIN catalog : EntryKey(catalog[k]) = LineKey(good[k])

\* C28 witness: a load from a missing file has raised beside the source
\* catalog of the file whose first line is malformed and whose two other
\* lines are the entries, in their order.
C28_Witness ==
    /\ last.op = "load_source_catalog"
    /\ last.raised
    /\ pre.last.op = "load_source_catalog"
    /\ Len(catalogs.source_catalog) = 2
    /\ catalogs.source_catalog[1].name = SrcGood2[1]
    /\ catalogs.source_catalog[2].name = SrcGood1[1]

\* C29: an activation sync for telescopes or frequencies with
\* is_active = True adds the index to a scan's list only when the index is
\* a position of the collection, in [0, len), and the entity there is
\* active; when the index is outside the collection or the entity there is
\* inactive, no scan changes.
C29_ActivationAddsLivePositionsOnly ==
    (last.op = "sync" /\ last.entity_type \in {"telescopes", "frequencies"}
        /\ last.flag) =>
        LET all_entities == AllEntities(last.entity_type)
            live == /\ InRange(last.index, all_entities)
                    /\ all_entities[last.index + 1].isactive
        IN  /\ \A k \in DOMAIN scans :
                  (/\ last.index \in Range(IndexList(scans[k], last.entity_type))
                   /\ last.index \notin
                          Range(IndexList(pre.scans[k], last.entity_type)))
                      => live
            /\ ~live => scans = pre.scans

\* The identity of an entity: the name of a source, the code of a
\* telescope, the frequency of an IF.
IdentityOf(entity_type, entity) == IF entity_type = "frequencies" THEN entity._frequency ELSE entity.id
Identities(entity_type, coll) == {IdentityOf(entity_type, coll[k]) : k \in DOMAIN coll}
DistinctIdentities(entity_type, coll) == Cardinality(Identities(entity_type, coll)) = Len(coll)

\* The entities a list of indices denotes in a collection, in order.
Denoted(entity_type, idxs, coll) == [j \in DOMAIN idxs |-> IdentityOf(entity_type, coll[idxs[j] + 1])]

\* The last call was an insertion at 0 <= p <= len or a removal at
\* 0 <= p < len of a collection of distinct identities, on scans whose
\* indices were live, and the inserted identity is a new one.
InRangeStructuralCall ==
    /\ last.op \in InsertCalls \cup RemoveCalls
    /\ ~last.raised
    /\ 0 <= last.index
    /\ last.index < Len(pre[last.entity_type]) + (IF last.op \in InsertCalls THEN 1 ELSE 0)
    /\ \A t \in EntityTypes : DistinctIdentities(t, pre[t]) /\ DistinctIdentities(t, AllEntities(t))
    /\ \A k \in DOMAIN pre.scans :
          /\ pre.scans[k].source_index # None => InRange(Val(pre.scans[k].source_index), pre.sources)
          /\ \A i \in Range(pre.scans[k].telescope_indices) : InRange(i, pre.telescopes)
          /\ \A i \in Range(pre.scans[k].frequency_indices) : InRange(i, pre.frequencies)

\* C30: with distinct, stable identities, an in-range insertion or removal
\* leaves every index of every scan on the entity it denoted: the
\* telescopes and the frequencies a scan denotes are those it denoted
\* before, in the same order, without the one removed; the source a scan
\* denotes is the one it denoted before, or the scan is off-source with no
\* source index when that source was removed.  Holding at each call, it
\* holds along any sequence of such calls.
C30_IndicesFollowEntities ==
    InRangeStructuralCall =>
        \A k \in DOMAIN scans :
            /\ \A t \in {"telescopes", "frequencies"} :
                  Denoted(t, IndexList(scans[k], t), AllEntities(t))
                    = SelectSeq(Denoted(t, IndexList(pre.scans[k], t), pre[t]),
                                LAMBDA id : id \in Identities(t, AllEntities(t)))
            /\ IF pre.scans[k].source_index = None
               THEN scans[k].source_index = None
               ELSE LET id == pre.sources[Val(pre.scans[k].source_index) + 1].id
                    IN  IF id \in Identities("sources", sources)
                        THEN /\ scans[k].source_index # None
                             /\ InRange(Val(scans[k].source_index), sources)
                             /\ sources[Val(scans[k].source_index) + 1].id = id
                        ELSE /\ scans[k].source_index = None
                             /\ scans[k].is_off_source

\* C30 witness: a telescope was inserted in range after a removal of a
\* telescope; the removal dropped an index of a scan and the insertion
\* renumbered what that scan still held.
C30_Witness ==
    /\ InRangeStructuralCall
    /\ last.op = "insert_telescope"
    /\ pre.last.op = "remove_telescope"
    /\ ~pre.last.raised
    /\ \E k \in DOMAIN scans :
          /\ scans[k].telescope_indices # pre.scans[k].telescope_indices
          /\ Len(scans[k].telescope_indices) > 0
          /\ Len(pre.scans[k].telescope_indices) < Len(pre2.scans[k].telescope_indices)
          /\ pre.scans[k].telescope_indices # <<>>

\* C31: in validate() the availability check of every active scan comes
\* before any overlap check: when validate() reaches the checks of the
\* scans in time and an active scan fails the availability check, it
\* fails for the availability reason, whatever overlaps there are.
C31_AvailabilityBeforeOverlap ==
    (/\ last.op = "validate"
     /\ ~ret.raised
     /\ ret.reason \in {"", "availability", "overlap"}
     /\ \E k \in DOMAIN scans : scans[k].isactive /\ ~scans[k].available)
        => ret.reason = "availability"

\* C32: after the construction and any calls of set_observation and of
\* Configurator.set_observation_type, the type of the observation is
\* "VLBI" or "SINGLE_DISH"; a call with another value raises and leaves
\* the type, the code, the collections and the calculated data.
C32_ObservationTypeValid ==
    /\ attrs.observation_type \in {"VLBI", "SINGLE_DISH"}
    /\ last.op \in {"set_observation", "set_observation_type"} =>
          /\ last.entity_type \notin {"VLBI", "SINGLE_DISH"} => last.raised
          /\ ~last.raised => attrs.observation_type = last.entity_type
          /\ last.raised =>
               /\ attrs = pre.attrs
               /\ sources = pre.sources
               /\ telescopes = pre.telescopes
               /\ frequencies = pre.frequencies
               /\ scans = pre.scans
               /\ calculated_data = pre.calculated_data

\* C32 witness: set_observation with the type "vlbi" has raised on an
\* observation that has calculated data and the type SINGLE_DISH.
C32_Witness ==
    /\ last.op = "set_observation"
    /\ last.entity_type = "vlbi"
    /\ last.raised
    /\ attrs.observation_type = "SINGLE_DISH"
    /\ calculated_data # EmptyData
    /\ Len(sources) = InitLen

\* The methods execute() calls on one observation: those of the
\* collaborators that are set, in the order configure, calculate, visualize.
MethodsInOrder(m) == (IF m.configurator THEN <<"configure_observation">> ELSE <<>>) \o (IF m.calculator THEN <<"calculate_all">> ELSE <<>>) \o (IF m.vizualizator THEN <<"visualize_observation">> ELSE <<>>)

\* The j-th call of a complete execution: the observations in the order of
\* the project, and for each the methods in order.
CallInOrder(m, j) ==
    LET n == Len(MethodsInOrder(m))
    IN  [method |-> MethodsInOrder(m)[((j - 1) % n) + 1],
         code |-> ItemCode(m.observations[((j - 1) \div n) + 1])]

\* C33: execute() goes through the observations in the order of the
\* project and calls on each the collaborators that are set, configure
\* then calculate then visualize, one observation after the other, for
\* every observation of the project; with no observation it calls none.
C33_ExecuteOrder ==
    last.op = "execute" =>
        /\ ~last.raised
        /\ Len(ret.calls) = Len(MethodsInOrder(manipulator)) * Len(manipulator.observations)
        /\ \A j \in DOMAIN ret.calls : ret.calls[j] = CallInOrder(manipulator, j)

\* The last two calls were an insertion at a position 0 <= p <= len and
\* the removal at the same position of the same collection.
InsertThenRemove ==
    /\ last.op \in RemoveCalls
    /\ pre.last.op \in InsertCalls
    /\ last.entity_type = pre.last.entity_type
    /\ last.index = pre.last.index
    /\ 0 <= last.index
    /\ last.index <= Len(pre2[last.entity_type])

\* C34: an insertion at an in-range position p followed by the removal at
\* p gives back the collection and, in every scan, the indices of that
\* type and the off-source flag, as they were before the insertion.
C34_InsertThenRemoveRestores ==
    InsertThenRemove =>
        /\ ~last.raised
        /\ AllEntities(last.entity_type) = pre2[last.entity_type]
        /\ Len(scans) = Len(pre2.scans)
        /\ \A k \in DOMAIN scans :
              /\ scans[k].source_index = pre2.scans[k].source_index
              /\ scans[k].telescope_indices = pre2.scans[k].telescope_indices
              /\ scans[k].frequency_indices = pre2.scans[k].frequency_indices
              /\ scans[k].is_off_source = pre2.scans[k].is_off_source

\* C34 witness: a source was inserted at the position a scan pointed at,
\* which moved the scan's index up by one, and removed again, which moved
\* it back.
C34_Witness ==
    /\ InsertThenRemove
    /\ last.op = "remove_source"
    /\ \E k \in DOMAIN scans :
          /\ pre2.scans[k].source_index = Some(last.index)
          /\ pre.scans[k].source_index = Some(last.index + 1)
          /\ scans[k].source_index = Some(last.index)
          /\ ~scans[k].is_off_source

\* C35: from scans of which every one with is_off_source False has a
\* source index, insert_source, remove_source and the activation sync of
\* sources never leave a scan with no source index and is_off_source
\* False.
C35_NoSourceMeansOffSource ==
    \A k \in DOMAIN scans :
        scans[k].source_index = None => scans[k].is_off_source

\* C35 witness: after an insertion of a source, the deactivation of the
\* source of an on-source scan has cleared the scan's index and set
\* is_off_source.
C35_Witness ==
    /\ last.op = "sync"
    /\ ~last.flag
    /\ pre.last.op = "insert_source"
    /\ \E k \in DOMAIN scans :
          /\ pre.scans[k].source_index = Some(last.index)
          /\ ~pre.scans[k].is_off_source
          /\ pre.scans[k].source_index # pre2.scans[k].source_index
          /\ scans[k].source_index = None
          /\ scans[k].is_off_source

EngineCalls == InsertCalls \cup RemoveCalls \cup {"sync"}

\* C36: a structural change or an activation sync of one entity type
\* leaves, in every scan, the references of the two other types; it leaves
\* the number and the order of the scans, and the two other collections.
C36_OtherTypesUntouched ==
    last.op \in EngineCalls =>
        /\ \A t \in EntityTypes \ {last.entity_type} : AllEntities(t) = pre[t]
        /\ Len(scans) = Len(pre.scans)
        /\ \A k \in DOMAIN scans :
              /\ scans[k].start = pre.scans[k].start
              /\ scans[k].duration = pre.scans[k].duration
              /\ scans[k].isactive = pre.scans[k].isactive
              /\ last.entity_type # "sources" =>
                    /\ scans[k].source_index = pre.scans[k].source_index
                    /\ scans[k].is_off_source = pre.scans[k].is_off_source
              /\ last.entity_type # "telescopes" =>
                    scans[k].telescope_indices = pre.scans[k].telescope_indices
              /\ last.entity_type # "frequencies" =>
                    scans[k].frequency_indices = pre.scans[k].frequency_indices

\* C36 witness: remove_telescope has rewritten the telescope indices of a
\* scan that has a source and frequency indices above the position, after
\* an activation sync of the sources that cleared the source of a scan.
C36_Witness ==
    /\ last.op = "remove_telescope"
    /\ ~last.raised
    /\ pre.last.op = "sync"
    /\ pre.last.entity_type = "sources"
    /\ pre.scans # pre2.scans
    /\ \E k \in DOMAIN scans :
          /\ scans[k].telescope_indices # pre.scans[k].telescope_indices
          /\ scans[k].source_index # None
          /\ Val(scans[k].source_index) > last.index
          /\ \E i \in Range(scans[k].frequency_indices) : i > last.index

NoDuplicate(idxs) == Cardinality(Range(idxs)) = Len(idxs)

\* The two lists have one length and their members stand in one order:
\* member by member the second is the first moved by at most one in the
\* direction given, and smaller members stay before or after larger ones
\* as they were.
SameOrder(old, new, direction) ==
    /\ Len(new) = Len(old)
    /\ \A j \in DOMAIN new : new[j] \in {old[j], old[j] + direction}
    /\ \A i \in DOMAIN new : \A j \in DOMAIN new :
          (new[i] < new[j]) <=> (old[i] < old[j])

\* C37: from index lists with no duplicate, the insertions, the removals
\* and the activation syncs leave no list with a duplicate; a removal
\* keeps the order of the indices that survive, and an insertion keeps
\* the order and the length of every list.
C37_NoDuplicateOrderKept ==
    /\ \A k \in DOMAIN scans :
          /\ NoDuplicate(scans[k].telescope_indices)
          /\ NoDuplicate(scans[k].frequency_indices)
    /\ (last.op \in RemoveCalls /\ ~last.raised) =>
          \A k \in DOMAIN scans : \A t \in {"telescopes", "frequencies"} :
              SameOrder(SelectSeq(IndexList(pre.scans[k], t),
                                  LAMBDA i : t # last.entity_type \/ i # last.index),
                        IndexList(scans[k], t), 0 - 1)
    /\ last.op \in InsertCalls =>
          \A k \in DOMAIN scans : \A t \in {"telescopes", "frequencies"} :
              SameOrder(IndexList(pre.scans[k], t), IndexList(scans[k], t), 1)

\* C37 witness: an activation sync has appended a telescope index to a
\* list that a removal of a telescope had shortened and renumbered.
C37_Witness ==
    /\ last.op = "sync"
    /\ last.entity_type = "telescopes"
    /\ last.flag
    /\ pre.last.op = "remove_telescope"
    /\ \E k \in DOMAIN scans :
          /\ Len(pre.scans[k].telescope_indices) < Len(pre2.scans[k].telescope_indices)
          /\ \E j \in DOMAIN pre.scans[k].telescope_indices :
                pre.scans[k].telescope_indices[j] # pre2.scans[k].telescope_indices[j]
          /\ scans[k].telescope_indices = pre.scans[k].telescope_indices \o <<last.index>>

\* The last two calls were the activation sync of one telescope or
\* frequency position with False and then with True, and the entity at the
\* position is active.
DeactivatedThenActivated ==
    /\ last.op = "sync"
    /\ pre.last.op = "sync"
    /\ last.entity_type \in {"telescopes", "frequencies"}
    /\ pre.last.entity_type = last.entity_type
    /\ pre.last.index = last.index
    /\ ~pre.last.flag
    /\ last.flag
    /\ InRange(last.index, AllEntities(last.entity_type))
    /\ AllEntities(last.entity_type)[last.index + 1].isactive

\* C38: for a scan whose telescope (or frequency) list holds i, with the
\* entity at i active, the activation sync with (i, False) and then with
\* (i, True) gives the list the set of indices it had.
C38_DeactivateActivateRestores ==
    DeactivatedThenActivated =>
        \A k \in DOMAIN scans :
            last.index \in Range(IndexList(pre2.scans[k], last.entity_type))
                => /\ ~last.raised
                   /\ Range(IndexList(scans[k], last.entity_type))
                        = Range(IndexList(pre2.scans[k], last.entity_type))

====
